---- MODULE Spec2Model ----
(***************************************************************************)
(* Forecast analysis and window tracking of the paragliding weather bot.   *)
(*                                                                         *)
(* Numbers: temperatures, wind speeds and percentages are integers; dates  *)
(* are day numbers (the code's YYYY-MM-DD strings compare in the same      *)
(* order), hours are 0..23.                                                *)
(***************************************************************************)
EXTENDS Integers, Sequences, FiniteSets, TLC

VARIABLES
    location,           \* the Location whose rules are applied
    ow_data,            \* OpenWeather forecast handed to the analyzer
    vc_data,            \* VisualCrossing forecast handed to the analyzer
    result,             \* FullForecastAnalysis of the last analysis
    day_hours,          \* per analyzed date: hours_both, hours_ow_only, hours_vc_only, hours_union
    pc,                 \* "input" before the analysis, "done" after it, "idle" between check cycles,
                        \* "checked" and "direction" after an hour evaluation
    today,              \* current date: date('now') of the database, strftime of the notifier
    flyable_windows,    \* table flyable_windows: sequence of rows in insertion order
    notified_before,    \* rows get_notified_windows returned in the last check cycle
    new_windows,        \* new_windows of the last check cycle
    cancelled_windows,  \* cancelled_windows of the last check cycle
    last_send,          \* the last check cycle's send_message: "none", "ok", "telegram_error"
    last_op,            \* the operation that ran last: "init", "check", "day"
    hour_record,        \* the HourlyWeather record handed to the hour evaluation
    hour_flyable,       \* what _check_hour_flyable returned for it
    direction_ok,       \* what _check_wind_direction returned for its wind direction
    runs,               \* the check_location calls in flight: per caller its position and locals
    weather_forecasts,  \* table weather_forecasts: the number of its rows, ids 1..weather_forecasts
    weather_status,     \* table weather_status of the location: per date its row
    conversation,       \* state of the /set_config conversation of one user in one chat
    locations,          \* table locations: the rows of the chat
    location_seq,       \* AUTOINCREMENT of table locations: the largest id handed out
    user_data,          \* context.user_data: pending_config and locations_to_delete
    received            \* what the last handler of the conversation was sent

vars == <<location, ow_data, vc_data, result, day_hours, pc, today,
          flyable_windows, notified_before, new_windows, cancelled_windows,
          last_send, last_op, hour_record, hour_flyable, direction_ok, runs,
          weather_forecasts, weather_status,
          conversation, locations, location_seq, user_data, received>>

analysis_vars == <<location, ow_data, vc_data, result, day_hours>>
tracking_vars == <<today, flyable_windows, notified_before, new_windows,
                   cancelled_windows, last_send, last_op, runs,
                   weather_forecasts, weather_status>>
hour_vars == <<hour_record, hour_flyable, direction_ok>>
config_vars == <<conversation, locations, location_seq, user_data, received>>

----------------------------------------------------------------------------
(* Bounds of the model *)

MaxHour == 3      \* the exhaustive single-day inputs use hours 0..MaxHour
MaxReq == 2       \* required_conditions_duration_hours ranges over 0..MaxReq
MaxRows == 4      \* a check cycle runs while the table flyable_windows stays within MaxRows rows
MaxDay == 2       \* the calendar runs over days 1..MaxDay
MaxForecasts == 5 \* a check cycle runs while the table weather_forecasts holds fewer than MaxForecasts rows
MaxConfigLocations == 2 \* a submitted configuration lists at most MaxConfigLocations locations
MaxLocationId == 3 \* a configuration is saved while the ids of table locations stay within MaxLocationId

----------------------------------------------------------------------------
(* Generic helpers *)

Abs(x) == IF x < 0 THEN -x ELSE x

SeqToSet(s) == {s[i] : i \in 1..Len(s)}

SetMin(S) == CHOOSE m \in S : \A x \in S : m <= x

SetMax(S) == CHOOSE m \in S : \A x \in S : m >= x

RECURSIVE SortedSeq(_)
SortedSeq(S) ==
    IF S = {} THEN <<>>
    ELSE LET m == SetMin(S) IN <<m>> \o SortedSeq(S \ {m})

----------------------------------------------------------------------------
(* Location rules *)

\* The defaults of the Location dataclass, with the wind_gust_max the database
\* row of a location carries.
DefaultLocation ==
    [ id |-> 1,
      time_window_start |-> 8,
      time_window_end |-> 18,
      temp_min |-> 5,
      humidity_max |-> 85,
      wind_speed_max |-> 8,
      wind_gust_max |-> 12,
      wind_directions |-> <<>>,
      wind_direction_tolerance |-> 45,
      dew_point_spread_min |-> 2,
      required_conditions_duration_hours |-> 4,
      precipitation_probability_max |-> 20 ]

get_wind_directions_list(loc) == loc.wind_directions

----------------------------------------------------------------------------
(* Hour evaluation *)

\* Mutant: the difference is not folded at 180 degrees.
check_wind_direction_no_wrap(actual, allowed, tolerance) ==
    \E i \in 1..Len(allowed) : Abs(actual - allowed[i]) <= tolerance

check_wind_direction(actual, allowed, tolerance) ==
    \E i \in 1..Len(allowed) :
        LET d == Abs(actual - allowed[i])
            diff == IF d > 180 THEN 360 - d ELSE d
        IN  diff <= tolerance

\* Mutant: a temperature equal to temp_min is rejected.
check_hour_flyable_strict_temperature(weather, loc) ==
    IF weather.temperature <= loc.temp_min THEN FALSE
    ELSE IF weather.humidity > loc.humidity_max THEN FALSE
    ELSE IF weather.wind_speed > loc.wind_speed_max THEN FALSE
    ELSE IF 2 * weather.wind_gust > 3 * loc.wind_speed_max THEN FALSE
    ELSE IF /\ get_wind_directions_list(loc) # <<>>
            /\ ~check_wind_direction(weather.wind_direction,
                                     get_wind_directions_list(loc),
                                     loc.wind_direction_tolerance)
         THEN FALSE
    ELSE IF weather.temperature - weather.dew_point < loc.dew_point_spread_min THEN FALSE
    ELSE IF weather.precipitation_probability > loc.precipitation_probability_max THEN FALSE
    ELSE TRUE

\* gust_limit = wind_speed_max * 1.5, compared without fractions
check_hour_flyable(weather, loc) ==
    IF weather.temperature < loc.temp_min THEN FALSE
    ELSE IF weather.humidity > loc.humidity_max THEN FALSE
    ELSE IF weather.wind_speed > loc.wind_speed_max THEN FALSE
    ELSE IF 2 * weather.wind_gust > 3 * loc.wind_speed_max THEN FALSE
    ELSE IF /\ get_wind_directions_list(loc) # <<>>
            /\ ~check_wind_direction(weather.wind_direction,
                                     get_wind_directions_list(loc),
                                     loc.wind_direction_tolerance)
         THEN FALSE
    ELSE IF weather.temperature - weather.dew_point < loc.dew_point_spread_min THEN FALSE
    ELSE IF weather.precipitation_probability > loc.precipitation_probability_max THEN FALSE
    ELSE TRUE

----------------------------------------------------------------------------
(* Provider forecasts and their parsing *)

\* A forecast is None, an empty dict or a dict with an "hourly" list.
NoneData == [kind |-> "none", hourly |-> <<>>]
EmptyData == [kind |-> "empty", hourly |-> <<>>]
Forecast(hourly) == [kind |-> "dict", hourly |-> hourly]

\* Python truth value of a forecast: None and {} are false.
Truthy(data) == data.kind = "dict"

\* An hourly entry: datetime is <<"full", date, hour>> ("YYYY-MM-DD HH:MM:SS"),
\* <<"date", date, 0>> ("YYYY-MM-DD") or <<"bad", 0, 0>> (unparsable); timestamp
\* counts hours since day 0, 0 meaning absent.
HourData(dt, ts, temp, wind) ==
    [ datetime |-> dt, timestamp |-> ts,
      temperature |-> temp, humidity |-> 50, dew_point |-> temp - 5,
      wind_speed |-> wind, wind_gust |-> wind, wind_direction |-> 0,
      precipitation_probability |-> 0 ]

DatetimeParses(hour_data) == hour_data.datetime[1] \in {"full", "date"}

HourlyWeather(hour_data, date, hour, source) ==
    [ date_str |-> date, hour |-> hour,
      temperature |-> hour_data.temperature,
      humidity |-> hour_data.humidity,
      dew_point |-> hour_data.dew_point,
      wind_speed |-> hour_data.wind_speed,
      wind_gust |-> hour_data.wind_gust,
      wind_direction |-> hour_data.wind_direction,
      precipitation_probability |-> hour_data.precipitation_probability,
      source |-> source ]

\* Mutant: an entry whose datetime does not parse is dated by its timestamp
\* even when it has none, instead of being skipped.
RECURSIVE parse_all_hourly_data_no_skip(_, _)
parse_all_hourly_data_no_skip(hourly, source) ==
    IF hourly = <<>> THEN <<>>
    ELSE LET hour_data == Head(hourly)
             rest == parse_all_hourly_data_no_skip(Tail(hourly), source)
         IN  IF DatetimeParses(hour_data)
             THEN <<HourlyWeather(hour_data, hour_data.datetime[2],
                                  hour_data.datetime[3], source)>> \o rest
             ELSE <<HourlyWeather(hour_data, hour_data.timestamp \div 24,
                                  hour_data.timestamp % 24, source)>> \o rest

RECURSIVE parse_all_hourly_data(_, _)
parse_all_hourly_data(hourly, source) ==
    IF hourly = <<>> THEN <<>>
    ELSE LET hour_data == Head(hourly)
             rest == parse_all_hourly_data(Tail(hourly), source)
         IN  IF DatetimeParses(hour_data)
             THEN <<HourlyWeather(hour_data, hour_data.datetime[2],
                                  hour_data.datetime[3], source)>> \o rest
             ELSE IF hour_data.timestamp # 0
             THEN <<HourlyWeather(hour_data, hour_data.timestamp \div 24,
                                  hour_data.timestamp % 24, source)>> \o rest
             ELSE rest

\* by_date[d] of the code is DayData(hourly_list, d); its keys are DatesOf.
DatesOf(hourly_list) == {hourly_list[i].date_str : i \in 1..Len(hourly_list)}

DayData(hourly_list, date) == SelectSeq(hourly_list, LAMBDA h : h.date_str = date)

----------------------------------------------------------------------------
(* Day window finder *)

\* {h.hour: h for h in day_data}: a later record of the same hour replaces an earlier one
HasHour(day_data, hour) == \E i \in 1..Len(day_data) : day_data[i].hour = hour

ByHour(day_data, hour) ==
    day_data[SetMax({i \in 1..Len(day_data) : day_data[i].hour = hour})]

RECURSIVE FlyableHoursLoop(_, _, _, _, _)
FlyableHoursLoop(loc, ow_day_data, vc_day_data, hour, acc) ==
    IF hour > loc.time_window_end THEN acc
    ELSE LET ow_flyable == IF HasHour(ow_day_data, hour)
                           THEN check_hour_flyable(ByHour(ow_day_data, hour), loc)
                           ELSE FALSE
             vc_flyable == IF HasHour(vc_day_data, hour)
                           THEN check_hour_flyable(ByHour(vc_day_data, hour), loc)
                           ELSE FALSE
             next == IF ow_flyable /\ vc_flyable
                     THEN [acc EXCEPT !.hours_both = Append(@, hour)]
                     ELSE IF ow_flyable
                     THEN [acc EXCEPT !.hours_ow_only = Append(@, hour)]
                     ELSE IF vc_flyable
                     THEN [acc EXCEPT !.hours_vc_only = Append(@, hour)]
                     ELSE acc
         IN  FlyableHoursLoop(loc, ow_day_data, vc_day_data, hour + 1, next)

\* Mutant: range(24) evaluates every hour of the day, not those of the time window.
find_flyable_hours_for_day_whole_day(loc, ow_day_data, vc_day_data) ==
    FlyableHoursLoop([loc EXCEPT !.time_window_end = 23], ow_day_data, vc_day_data, 0,
                     [hours_both |-> <<>>, hours_ow_only |-> <<>>, hours_vc_only |-> <<>>])

\* Mutant: range(start_hour, end_hour) leaves out the last hour of the time window.
find_flyable_hours_for_day_exclusive_end(loc, ow_day_data, vc_day_data) ==
    FlyableHoursLoop([loc EXCEPT !.time_window_end = @ - 1], ow_day_data, vc_day_data,
                     loc.time_window_start,
                     [hours_both |-> <<>>, hours_ow_only |-> <<>>, hours_vc_only |-> <<>>])

find_flyable_hours_for_day(loc, ow_day_data, vc_day_data) ==
    FlyableHoursLoop(loc, ow_day_data, vc_day_data, loc.time_window_start,
                     [hours_both |-> <<>>, hours_ow_only |-> <<>>, hours_vc_only |-> <<>>])

\* Mutant: "both" as soon as one hour of the window is flyable per both providers.
window_source_any_both(window_hours, hours_both, hours_ow_only, hours_vc_only) ==
    IF window_hours = {} THEN "both"
    ELSE IF window_hours \cap hours_both # {} THEN "both"
    ELSE IF /\ window_hours \subseteq (hours_both \cup hours_ow_only)
            /\ window_hours \cap hours_vc_only = {}
         THEN "openweather"
    ELSE IF /\ window_hours \subseteq (hours_both \cup hours_vc_only)
            /\ window_hours \cap hours_ow_only = {}
         THEN "visualcrossing"
    ELSE "mixed"

window_source(window_hours, hours_both, hours_ow_only, hours_vc_only) ==
    IF window_hours = {} THEN "both"
    ELSE IF window_hours \subseteq hours_both THEN "both"
    ELSE IF /\ window_hours \subseteq (hours_both \cup hours_ow_only)
            /\ window_hours \cap hours_vc_only = {}
         THEN "openweather"
    ELSE IF /\ window_hours \subseteq (hours_both \cup hours_vc_only)
            /\ window_hours \cap hours_ow_only = {}
         THEN "visualcrossing"
    ELSE "mixed"

\* Mutant: the statistics run over all records of the date, whatever their hour.
create_window_info_whole_day(date_str, hours, all_hourly_data, source) ==
    LET window_data == SelectSeq(all_hourly_data,
                              LAMBDA h : h.date_str = date_str)
        temps == {window_data[i].temperature : i \in 1..Len(window_data)}
        winds == {window_data[i].wind_speed : i \in 1..Len(window_data)}
    IN  [ date |-> date_str,
          start_hour |-> hours[1],
          end_hour |-> hours[Len(hours)],
          duration_hours |-> Len(hours),
          source |-> source,
          min_temp |-> IF window_data # <<>> THEN SetMin(temps) ELSE 0,
          max_temp |-> IF window_data # <<>> THEN SetMax(temps) ELSE 0,
          max_wind_speed |-> IF window_data # <<>> THEN SetMax(winds) ELSE 0 ]

create_window_info(date_str, hours, all_hourly_data, source) ==
    LET window_data == SelectSeq(all_hourly_data,
                              LAMBDA h : h.date_str = date_str /\ h.hour \in SeqToSet(hours))
        temps == {window_data[i].temperature : i \in 1..Len(window_data)}
        winds == {window_data[i].wind_speed : i \in 1..Len(window_data)}
    IN  [ date |-> date_str,
          start_hour |-> hours[1],
          end_hour |-> hours[Len(hours)],
          duration_hours |-> Len(hours),
          source |-> source,
          min_temp |-> IF window_data # <<>> THEN SetMin(temps) ELSE 0,
          max_temp |-> IF window_data # <<>> THEN SetMax(temps) ELSE 0,
          max_wind_speed |-> IF window_data # <<>> THEN SetMax(winds) ELSE 0 ]

\* Mutant: the loop extends the current sequence without comparing neighbours.
RECURSIVE ContinuousLoop_ignore_gap(_, _, _, _, _, _, _)
ContinuousLoop_ignore_gap(date_str, sorted_hours, required_hours, all_hourly_data, source, i, st) ==
    IF i > Len(sorted_hours) THEN st
    ELSE ContinuousLoop_ignore_gap(date_str, sorted_hours, required_hours, all_hourly_data,
                                   source, i + 1,
                                   [st EXCEPT !.current_sequence = Append(@, sorted_hours[i])])

\* the for loop of _find_continuous_windows from index i on
RECURSIVE ContinuousLoop(_, _, _, _, _, _, _)
ContinuousLoop(date_str, sorted_hours, required_hours, all_hourly_data, source, i, st) ==
    IF i > Len(sorted_hours) THEN st
    ELSE IF sorted_hours[i] = sorted_hours[i - 1] + 1
    THEN ContinuousLoop(date_str, sorted_hours, required_hours, all_hourly_data, source,
                        i + 1,
                        [st EXCEPT !.current_sequence = Append(@, sorted_hours[i])])
    ELSE ContinuousLoop(date_str, sorted_hours, required_hours, all_hourly_data, source,
                        i + 1,
                        [ current_sequence |-> <<sorted_hours[i]>>,
                          windows |->
                            IF Len(st.current_sequence) >= required_hours
                            THEN Append(st.windows,
                                        create_window_info(date_str, st.current_sequence,
                                                           all_hourly_data, source))
                            ELSE st.windows ])

\* Mutant: the last sequence is appended without the length check.
find_continuous_windows_no_final_check(date_str, flyable_hours, required_hours, all_hourly_data, source) ==
    IF Len(flyable_hours) < required_hours THEN [raised |-> FALSE, windows |-> <<>>]
    ELSE LET sorted_hours == SortSeq(flyable_hours, LAMBDA a, b : a < b)
         IN  IF sorted_hours = <<>> THEN [raised |-> TRUE, windows |-> <<>>]
             ELSE LET st == ContinuousLoop(date_str, sorted_hours, required_hours,
                                           all_hourly_data, source, 2,
                                           [ current_sequence |-> <<sorted_hours[1]>>,
                                             windows |-> <<>> ])
                  IN  [ raised |-> FALSE,
                        windows |-> Append(st.windows,
                                           create_window_info(date_str, st.current_sequence,
                                                              all_hourly_data, source)) ]

\* Mutant: the sequence still open when the loop ends is dropped.
find_continuous_windows_no_flush(date_str, flyable_hours, required_hours, all_hourly_data, source) ==
    IF Len(flyable_hours) < required_hours THEN [raised |-> FALSE, windows |-> <<>>]
    ELSE LET sorted_hours == SortSeq(flyable_hours, LAMBDA a, b : a < b)
         IN  IF sorted_hours = <<>> THEN [raised |-> TRUE, windows |-> <<>>]
             ELSE LET st == ContinuousLoop(date_str, sorted_hours, required_hours,
                                           all_hourly_data, source, 2,
                                           [ current_sequence |-> <<sorted_hours[1]>>,
                                             windows |-> <<>> ])
                  IN  [ raised |-> FALSE, windows |-> st.windows ]

\* raised: sorted_hours[0] of an empty list is an IndexError
find_continuous_windows(date_str, flyable_hours, required_hours, all_hourly_data, source) ==
    IF Len(flyable_hours) < required_hours THEN [raised |-> FALSE, windows |-> <<>>]
    ELSE LET sorted_hours == SortSeq(flyable_hours, LAMBDA a, b : a < b)
         IN  IF sorted_hours = <<>> THEN [raised |-> TRUE, windows |-> <<>>]
             ELSE LET st == ContinuousLoop(date_str, sorted_hours, required_hours,
                                           all_hourly_data, source, 2,
                                           [ current_sequence |-> <<sorted_hours[1]>>,
                                             windows |-> <<>> ])
                  IN  [ raised |-> FALSE,
                        windows |->
                          IF Len(st.current_sequence) >= required_hours
                          THEN Append(st.windows,
                                      create_window_info(date_str, st.current_sequence,
                                                         all_hourly_data, source))
                          ELSE st.windows ]

----------------------------------------------------------------------------
(* Forecast analyzer *)

\* Rejection reasons are <<tag, number>>; the number is the one the message prints.
ReasonNoOpenWeather == <<"no data from OpenWeather", 0>>
ReasonNoVisualCrossing == <<"no data from VisualCrossing", 0>>
ReasonNoHourly == <<"no hourly data in forecasts", 0>>
ReasonNoDates == <<"no matching dates in forecasts", 0>>
ReasonNoWindows(required) == <<"no continuous windows of at least N hours", required>>
ReasonNotContiguous(total) == <<"N flyable hours found but not contiguous", total>>

\* Mutant: has_flyable_conditions defaults to True.
EmptyResult_default_flyable(loc, openweather_data, visualcrossing_data) ==
    [ raised |-> FALSE,
      location_id |-> loc.id,
      flyable_windows |-> <<>>,
      total_flyable_hours |-> 0,
      total_hours_analyzed |-> 0,
      has_flyable_conditions |-> TRUE,
      rejection_reasons |-> <<>>,
      openweather_available |-> openweather_data.kind # "none",
      visualcrossing_available |-> visualcrossing_data.kind # "none",
      openweather_hours |-> 0,
      visualcrossing_hours |-> 0 ]

\* FullForecastAnalysis as constructed at the top of analyze_full_forecast
EmptyResult(loc, openweather_data, visualcrossing_data) ==
    [ raised |-> FALSE,
      location_id |-> loc.id,
      flyable_windows |-> <<>>,
      total_flyable_hours |-> 0,
      total_hours_analyzed |-> 0,
      has_flyable_conditions |-> FALSE,
      rejection_reasons |-> <<>>,
      openweather_available |-> openweather_data.kind # "none",
      visualcrossing_available |-> visualcrossing_data.kind # "none",
      openweather_hours |-> 0,
      visualcrossing_hours |-> 0 ]

\* Mutant: only the hours both providers agree on are searched for windows.
analyze_day_intersection(loc, date_str, ow_day_data, vc_day_data) ==
    LET b == find_flyable_hours_for_day(loc, ow_day_data, vc_day_data)
        hours_union == SortedSeq(SeqToSet(b.hours_both))
        raw == find_continuous_windows(date_str, hours_union,
                                       loc.required_conditions_duration_hours,
                                       ow_day_data \o vc_day_data, "both")
    IN  [ hours_both |-> b.hours_both,
          hours_ow_only |-> b.hours_ow_only,
          hours_vc_only |-> b.hours_vc_only,
          hours_union |-> hours_union,
          raised |-> raw.raised,
          windows |->
            [ i \in 1..Len(raw.windows) |->
                [ raw.windows[i] EXCEPT !.source =
                    window_source(raw.windows[i].start_hour..raw.windows[i].end_hour,
                                  SeqToSet(b.hours_both), SeqToSet(b.hours_ow_only),
                                  SeqToSet(b.hours_vc_only)) ] ] ]

\* One iteration of the loop over all_dates
analyze_day(loc, date_str, ow_day_data, vc_day_data) ==
    LET b == find_flyable_hours_for_day(loc, ow_day_data, vc_day_data)
        hours_union == SortedSeq(SeqToSet(b.hours_both) \cup SeqToSet(b.hours_ow_only)
                                 \cup SeqToSet(b.hours_vc_only))
        raw == find_continuous_windows(date_str, hours_union,
                                       loc.required_conditions_duration_hours,
                                       ow_day_data \o vc_day_data, "both")
    IN  [ hours_both |-> b.hours_both,
          hours_ow_only |-> b.hours_ow_only,
          hours_vc_only |-> b.hours_vc_only,
          hours_union |-> hours_union,
          raised |-> raw.raised,
          windows |->
            [ i \in 1..Len(raw.windows) |->
                [ raw.windows[i] EXCEPT !.source =
                    window_source(raw.windows[i].start_hour..raw.windows[i].end_hour,
                                  SeqToSet(b.hours_both), SeqToSet(b.hours_ow_only),
                                  SeqToSet(b.hours_vc_only)) ] ] ]

all_dates_of(ow_hourly, vc_hourly) == SortedSeq(DatesOf(ow_hourly) \cap DatesOf(vc_hourly))

analyzed_days(loc, ow_hourly, vc_hourly) ==
    [ d \in DatesOf(ow_hourly) \cap DatesOf(vc_hourly) |->
        analyze_day(loc, d, DayData(ow_hourly, d), DayData(vc_hourly, d)) ]

RECURSIVE ExtendWindows(_, _)
ExtendWindows(days, all_dates) ==
    IF all_dates = <<>> THEN <<>>
    ELSE days[Head(all_dates)].windows \o ExtendWindows(days, Tail(all_dates))

\* Mutant: total_hours = len(hours_union) for +=, the last date's count is kept.
SumSeq_last(s) == IF s = <<>> THEN 0 ELSE s[Len(s)]

RECURSIVE SumSeq(_)
SumSeq(s) == IF s = <<>> THEN 0 ELSE Head(s) + SumSeq(Tail(s))

\* Mutant: the sort key is start_hour alone.
WindowBefore_start_hour_only(a, b) == a.start_hour < b.start_hour

\* The order of the sort key (w.date, w.start_hour)
WindowBefore(a, b) ==
    \/ a.date < b.date
    \/ a.date = b.date /\ a.start_hour < b.start_hour

\* Mutant: the dates of either provider are analyzed (| for &).
analyze_available_any_date(loc, openweather_data, visualcrossing_data) ==
    LET result0 == EmptyResult(loc, openweather_data, visualcrossing_data)
        ow_hourly == parse_all_hourly_data(openweather_data.hourly, "openweather")
        vc_hourly == parse_all_hourly_data(visualcrossing_data.hourly, "visualcrossing")
        result1 == [ result0 EXCEPT !.openweather_hours = Len(ow_hourly),
                                    !.visualcrossing_hours = Len(vc_hourly) ]
    IN
    IF ow_hourly = <<>> \/ vc_hourly = <<>>
    THEN [ result1 EXCEPT !.rejection_reasons = <<ReasonNoHourly>> ]
    ELSE
    LET all_dates == SortedSeq(DatesOf(ow_hourly) \cup DatesOf(vc_hourly))
        days == [ d \in DatesOf(ow_hourly) \cup DatesOf(vc_hourly) |->
                    analyze_day(loc, d, DayData(ow_hourly, d), DayData(vc_hourly, d)) ]
        all_flyable_windows == SortSeq(ExtendWindows(days, all_dates), WindowBefore)
        total_hours == SumSeq([i \in 1..Len(all_dates) |-> Len(days[all_dates[i]].hours_union)])
    IN
    [ result1 EXCEPT
        !.flyable_windows = all_flyable_windows,
        !.total_flyable_hours = total_hours,
        !.has_flyable_conditions = Len(all_flyable_windows) > 0,
        !.rejection_reasons =
            IF all_flyable_windows = <<>>
            THEN <<ReasonNoWindows(loc.required_conditions_duration_hours)>>
                 \o (IF total_hours > 0 THEN <<ReasonNotContiguous(total_hours)>> ELSE <<>>)
            ELSE <<>> ]

\* Mutant: the informational reason is added whenever no window was found
\* (total_hours >= 0 for total_hours > 0).
analyze_available_always_informational(loc, openweather_data, visualcrossing_data) ==
    LET result0 == EmptyResult(loc, openweather_data, visualcrossing_data)
        ow_hourly == parse_all_hourly_data(openweather_data.hourly, "openweather")
        vc_hourly == parse_all_hourly_data(visualcrossing_data.hourly, "visualcrossing")
        result1 == [ result0 EXCEPT !.openweather_hours = Len(ow_hourly),
                                    !.visualcrossing_hours = Len(vc_hourly) ]
    IN
    IF ow_hourly = <<>> \/ vc_hourly = <<>>
    THEN [ result1 EXCEPT !.rejection_reasons = <<ReasonNoHourly>> ]
    ELSE
    LET all_dates == all_dates_of(ow_hourly, vc_hourly) IN
    IF all_dates = <<>>
    THEN [ result1 EXCEPT !.rejection_reasons = <<ReasonNoDates>> ]
    ELSE
    LET days == analyzed_days(loc, ow_hourly, vc_hourly)
        all_flyable_windows == SortSeq(ExtendWindows(days, all_dates), WindowBefore)
        total_hours == SumSeq([i \in 1..Len(all_dates) |-> Len(days[all_dates[i]].hours_union)])
    IN
    IF \E d \in DOMAIN days : days[d].raised
    THEN [ result1 EXCEPT !.raised = TRUE ]
    ELSE [ result1 EXCEPT
             !.flyable_windows = all_flyable_windows,
             !.total_flyable_hours = total_hours,
             !.total_hours_analyzed =
                 SumSeq([i \in 1..Len(all_dates) |-> Len(DayData(ow_hourly, all_dates[i]))]),
             !.has_flyable_conditions = Len(all_flyable_windows) > 0,
             !.rejection_reasons =
                 IF all_flyable_windows = <<>>
                 THEN <<ReasonNoWindows(loc.required_conditions_duration_hours)>>
                      \o (IF total_hours >= 0 THEN <<ReasonNotContiguous(total_hours)>> ELSE <<>>)
                 ELSE <<>> ]

\* analyze_full_forecast after both forecasts were found present
analyze_available(loc, openweather_data, visualcrossing_data) ==
    LET result0 == EmptyResult(loc, openweather_data, visualcrossing_data)
        ow_hourly == parse_all_hourly_data(openweather_data.hourly, "openweather")
        vc_hourly == parse_all_hourly_data(visualcrossing_data.hourly, "visualcrossing")
        result1 == [ result0 EXCEPT !.openweather_hours = Len(ow_hourly),
                                    !.visualcrossing_hours = Len(vc_hourly) ]
    IN
    IF ow_hourly = <<>> \/ vc_hourly = <<>>
    THEN [ result1 EXCEPT !.rejection_reasons = <<ReasonNoHourly>> ]
    ELSE
    LET all_dates == all_dates_of(ow_hourly, vc_hourly) IN
    IF all_dates = <<>>
    THEN [ result1 EXCEPT !.rejection_reasons = <<ReasonNoDates>> ]
    ELSE
    LET days == analyzed_days(loc, ow_hourly, vc_hourly)
        all_flyable_windows == SortSeq(ExtendWindows(days, all_dates), WindowBefore)
        total_hours == SumSeq([i \in 1..Len(all_dates) |-> Len(days[all_dates[i]].hours_union)])
    IN
    IF \E d \in DOMAIN days : days[d].raised
    THEN [ result1 EXCEPT !.raised = TRUE ]
    ELSE [ result1 EXCEPT
             !.flyable_windows = all_flyable_windows,
             !.total_flyable_hours = total_hours,
             !.total_hours_analyzed =
                 SumSeq([i \in 1..Len(all_dates) |-> Len(DayData(ow_hourly, all_dates[i]))]),
             !.has_flyable_conditions = Len(all_flyable_windows) > 0,
             !.rejection_reasons =
                 IF all_flyable_windows = <<>>
                 THEN <<ReasonNoWindows(loc.required_conditions_duration_hours)>>
                      \o (IF total_hours > 0 THEN <<ReasonNotContiguous(total_hours)>> ELSE <<>>)
                 ELSE <<>> ]

\* Mutant: the second missing provider is tested with elif and goes unnamed.
analyze_full_forecast_elif(loc, openweather_data, visualcrossing_data) ==
    IF ~Truthy(openweather_data) \/ ~Truthy(visualcrossing_data)
    THEN [ EmptyResult(loc, openweather_data, visualcrossing_data) EXCEPT
             !.rejection_reasons =
               IF ~Truthy(openweather_data) THEN <<ReasonNoOpenWeather>>
               ELSE <<ReasonNoVisualCrossing>> ]
    ELSE analyze_available(loc, openweather_data, visualcrossing_data)

analyze_full_forecast(loc, openweather_data, visualcrossing_data) ==
    IF ~Truthy(openweather_data) \/ ~Truthy(visualcrossing_data)
    THEN [ EmptyResult(loc, openweather_data, visualcrossing_data) EXCEPT
             !.rejection_reasons =
               (IF ~Truthy(openweather_data) THEN <<ReasonNoOpenWeather>> ELSE <<>>)
               \o (IF ~Truthy(visualcrossing_data) THEN <<ReasonNoVisualCrossing>> ELSE <<>>) ]
    ELSE analyze_available(loc, openweather_data, visualcrossing_data)

\* The per-date hour lists the loop of analyze_full_forecast has computed when it
\* returns or raises (it stops at the first date whose window search raises).
loop_hours(loc, openweather_data, visualcrossing_data) ==
    IF ~Truthy(openweather_data) \/ ~Truthy(visualcrossing_data) THEN <<>>
    ELSE LET ow_hourly == parse_all_hourly_data(openweather_data.hourly, "openweather")
             vc_hourly == parse_all_hourly_data(visualcrossing_data.hourly, "visualcrossing")
             days == analyzed_days(loc, ow_hourly, vc_hourly)
             raising == {d \in DOMAIN days : days[d].raised}
             reached == IF raising = {} THEN DOMAIN days
                        ELSE {d \in DOMAIN days : d <= SetMin(raising)}
         IN  [ d \in reached |->
                 [ hours_both |-> days[d].hours_both,
                   hours_ow_only |-> days[d].hours_ow_only,
                   hours_vc_only |-> days[d].hours_vc_only,
                   hours_union |-> days[d].hours_union ] ]

----------------------------------------------------------------------------
(* Inputs of the analysis *)

\* A record that passes every check of DefaultLocation, and one that is 1 degree
\* below temp_min.
GoodHour(date, hour) == HourData(<<"full", date, hour>>, date * 24 + hour, 10, 3)
ColdHour(date, hour) == HourData(<<"full", date, hour>>, date * 24 + hour, 4, 3)
\* A record 1 m/s above wind_speed_max, good otherwise
WindyHour(date, hour) == HourData(<<"full", date, hour>>, date * 24 + hour, 12, 9)

\* The hourly list of one provider for one date: status[h] is "G" (good record),
\* "B" (cold record), "W" (windy record) or "A" (no record), in hour order.
RECURSIVE HourlyOf(_, _, _, _)
HourlyOf(date, status, hour, last) ==
    IF hour > last THEN <<>>
    ELSE (IF status[hour] = "G" THEN <<GoodHour(date, hour)>>
          ELSE IF status[hour] = "B" THEN <<ColdHour(date, hour)>>
          ELSE IF status[hour] = "W" THEN <<WindyHour(date, hour)>>
          ELSE <<>>) \o HourlyOf(date, status, hour + 1, last)

\* <<OpenWeather status, VisualCrossing status>> of one hour
HourPairs == { <<"G", "G">>, <<"G", "B">>, <<"B", "G">>, <<"B", "B">>,
               <<"A", "G">>, <<"G", "A">> }

TimeWindows == { <<0, MaxHour>>, <<1, MaxHour - 1>> }

\* Every combination of the two providers' records over the hours 0..MaxHour of
\* one date, for two time windows and every required duration 0..MaxReq.
InitSingleDay ==
    \E pairs \in [0..MaxHour -> HourPairs], tw \in TimeWindows, req \in 0..MaxReq :
        /\ location = [ DefaultLocation EXCEPT
                          !.time_window_start = tw[1],
                          !.time_window_end = tw[2],
                          !.required_conditions_duration_hours = req ]
        /\ ow_data = Forecast(HourlyOf(1, [h \in 0..MaxHour |-> pairs[h][1]], 0, MaxHour))
        /\ vc_data = Forecast(HourlyOf(1, [h \in 0..MaxHour |-> pairs[h][2]], 0, MaxHour))

\* Records that fail on different grounds, one provider's next to the other's
MixedPairs == { <<"G", "W">>, <<"W", "G">>, <<"B", "G">>, <<"W", "W">> }

InitMixedDay ==
    \E pairs \in [0..MaxHour -> MixedPairs], req \in 1..MaxReq :
        /\ location = [ DefaultLocation EXCEPT
                          !.time_window_start = 0,
                          !.time_window_end = MaxHour,
                          !.required_conditions_duration_hours = req ]
        /\ ow_data = Forecast(HourlyOf(1, [h \in 0..MaxHour |-> pairs[h][1]], 0, MaxHour))
        /\ vc_data = Forecast(HourlyOf(1, [h \in 0..MaxHour |-> pairs[h][2]], 0, MaxHour))

Intervals(lo, hi) == {{}} \cup {a..b : a \in lo..hi, b \in lo..hi}

\* The default location (time window 8..18, 4 hours required), both providers
\* reporting every hour of the window, each flyable on one interval of hours.
InitScenario ==
    \E ow_good \in Intervals(DefaultLocation.time_window_start, DefaultLocation.time_window_end),
       vc_good \in Intervals(DefaultLocation.time_window_start, DefaultLocation.time_window_end) :
        LET lo == DefaultLocation.time_window_start
            hi == DefaultLocation.time_window_end
        IN  /\ location = DefaultLocation
            /\ ow_data = Forecast(HourlyOf(1, [h \in lo..hi |-> IF h \in ow_good THEN "G" ELSE "B"],
                                           lo, hi))
            /\ vc_data = Forecast(HourlyOf(1, [h \in lo..hi |-> IF h \in vc_good THEN "G" ELSE "B"],
                                           lo, hi))

\* A provider forecast that is None, an empty dict, a dict without hourly entries
\* or a usable forecast.
ProviderOutcomes ==
    { NoneData, EmptyData, Forecast(<<>>),
      Forecast(HourlyOf(1, [h \in 0..MaxHour |-> "G"], 0, MaxHour)) }

InitMissing ==
    /\ location = [ DefaultLocation EXCEPT !.time_window_start = 0,
                                           !.time_window_end = MaxHour,
                                           !.required_conditions_duration_hours = 1 ]
    /\ ow_data \in ProviderOutcomes
    /\ vc_data \in ProviderOutcomes

NoResult == EmptyResult(DefaultLocation, NoneData, NoneData)

\* No hour evaluation of its own is under way
InitHourIdle ==
    /\ hour_record = HourlyWeather(GoodHour(1, 0), 1, 0, "openweather")
    /\ hour_flyable = FALSE
    /\ direction_ok = FALSE

\* The callers of check_location: the scheduled job and the /check command
RunNames == {"scheduled", "manual"}

\* An update without a configuration: a command, a button, an unparsable text
Update(kind) == [update |-> kind, config |-> <<>>]

\* models.Location as db.py and config_handler.py construct it, with the
\* fields they pass; of the fields the name and the latitude are kept
Location(id, name, latitude) == [id |-> id, name |-> name, latitude |-> latitude]

\* The id of the tracked location in table locations
TrackedLocationId == 1

\* context.user_data without pending_config and locations_to_delete
NoUserData == [pending_config |-> <<>>, locations_to_delete |-> {}]

\* No conversation is running: the tracked location is the chat's only row
InitConfigIdle ==
    /\ conversation = "END"
    /\ locations = {Location(TrackedLocationId, "L1", 10)}
    /\ location_seq = 1
    /\ user_data = NoUserData
    /\ received = Update("none")

\* get_weather_status returned None: no row of weather_status for the date
NoStatus ==
    [ exists |-> FALSE, is_flyable |-> FALSE, consecutive_not_flyable_checks |-> 0,
      active_windows |-> {}, last_forecast_id |-> 0 ]

\* _update_weather_status: the row it upserts, from the row it read
status_after(status, res, forecast_id) ==
    [ exists |-> TRUE,
      is_flyable |-> res.has_flyable_conditions,
      consecutive_not_flyable_checks |->
          IF res.has_flyable_conditions THEN 0
          ELSE IF ~status.exists THEN 1
          ELSE status.consecutive_not_flyable_checks + 1,
      active_windows |-> {<<w.date, w.start_hour, w.end_hour, w.source>> :
                            w \in {res.flyable_windows[i] : i \in 1..Len(res.flyable_windows)}},
      last_forecast_id |-> forecast_id ]

\* _update_weather_status on the table: get_weather_status, then upsert_weather_status
update_weather_status(status_table, res, forecast_id, today_str) ==
    [status_table EXCEPT ![today_str] = status_after(status_table[today_str], res, forecast_id)]

\* A check_location call that has not started
IdleRun ==
    [ pc |-> "idle", result |-> NoResult, notified_windows |-> <<>>, to_cancel |-> <<>>,
      new_windows |-> <<>>, cancelled_windows |-> <<>>, send |-> "none",
      forecast_id |-> 0, status |-> NoStatus ]

InitTracking ==
    /\ today = 1
    /\ flyable_windows = <<>>
    /\ notified_before = <<>>
    /\ new_windows = <<>>
    /\ cancelled_windows = <<>>
    /\ last_send = "none"
    /\ last_op = "init"
    /\ runs = [r \in RunNames |-> IdleRun]
    /\ weather_forecasts = 0
    /\ weather_status = [d \in 1..MaxDay |-> NoStatus]

InitAnalyze ==
    /\ InitSingleDay \/ InitScenario \/ InitMissing \/ InitMixedDay
    /\ result = NoResult
    /\ day_hours = <<>>
    /\ pc = "input"
    /\ InitTracking
    /\ InitHourIdle
    /\ InitConfigIdle

\* WeatherAnalyzer.analyze_full_forecast applied to the inputs
Analyze ==
    /\ pc = "input"
    /\ result' = analyze_full_forecast(location, ow_data, vc_data)
    /\ day_hours' = loop_hours(location, ow_data, vc_data)
    /\ pc' = "done"
    /\ UNCHANGED <<location, ow_data, vc_data>>
    /\ UNCHANGED tracking_vars
    /\ UNCHANGED hour_vars
    /\ UNCHANGED config_vars

NextAnalyze == Analyze

SpecAnalyze == InitAnalyze /\ [][NextAnalyze]_vars

----------------------------------------------------------------------------
(* Forecasts over several dates, with entries the parser skips or dates by timestamp *)

\* An entry with good values whose datetime does not parse: without a timestamp
\* it is skipped, with one it is dated by the timestamp.
UnparsableHour(date, hour) == HourData(<<"bad", 0, 0>>, 0, 10, 3)
TimestampHour(date, hour) == HourData(<<"bad", 0, 0>>, date * 24 + hour, 10, 3)

\* What a provider delivers for one date, hour by hour from 0: "G" good, "B" cold,
\* "U" unparsable, "T" dated by timestamp; <<>> when the date is not covered.
DayPatterns == { <<>>, <<"G", "G">>, <<"B", "G">>, <<"U", "U">>, <<"T", "G">> }

EntriesOf(date, pattern) ==
    [ i \in 1..Len(pattern) |->
        CASE pattern[i] = "G" -> GoodHour(date, i - 1)
          [] pattern[i] = "B" -> ColdHour(date, i - 1)
          [] pattern[i] = "U" -> UnparsableHour(date, i - 1)
          [] pattern[i] = "T" -> TimestampHour(date, i - 1) ]

\* The hourly list of a provider: the entries of the dates from..MaxDay, the
\* earliest date first or last.
RECURSIVE HourlyOver(_, _, _)
HourlyOver(patterns, from, ascending) ==
    IF from > MaxDay THEN <<>>
    ELSE IF ascending
    THEN EntriesOf(from, patterns[from]) \o HourlyOver(patterns, from + 1, ascending)
    ELSE HourlyOver(patterns, from + 1, ascending) \o EntriesOf(from, patterns[from])

\* Two providers over the dates 1..MaxDay, a time window of two hours and every
\* required duration 1..MaxReq.
InitSeveralDates ==
    \E ow_patterns \in [1..MaxDay -> DayPatterns], vc_patterns \in [1..MaxDay -> DayPatterns],
       ascending \in BOOLEAN, req \in 1..MaxReq :
        /\ location = [ DefaultLocation EXCEPT !.time_window_start = 0,
                                               !.time_window_end = 1,
                                               !.required_conditions_duration_hours = req ]
        /\ ow_data = Forecast(HourlyOver(ow_patterns, 1, ascending))
        /\ vc_data = Forecast(HourlyOver(vc_patterns, 1, TRUE))

\* The forecasts over several dates, and the forecasts that are missing or empty
InitDates ==
    /\ InitSeveralDates \/ InitMissing
    /\ result = NoResult
    /\ day_hours = <<>>
    /\ pc = "input"
    /\ InitTracking
    /\ InitHourIdle
    /\ InitConfigIdle

SpecDates == InitDates /\ [][NextAnalyze]_vars

----------------------------------------------------------------------------
(* Single hours evaluated against a location's limits *)

MaxExcess == 1    \* the evaluated values lie within MaxExcess of the limit they are compared with

Around(limit) == (limit - MaxExcess)..(limit + MaxExcess)

\* The HourlyWeather record of hour 0 of date 1 with the given values
WeatherOf(temperature, humidity, dew_point, wind_speed, wind_gust, wind_direction, precipitation) ==
    HourlyWeather([ temperature |-> temperature, humidity |-> humidity,
                    dew_point |-> dew_point, wind_speed |-> wind_speed,
                    wind_gust |-> wind_gust, wind_direction |-> wind_direction,
                    precipitation_probability |-> precipitation ],
                  1, 0, "openweather")

\* <<allowed directions, tolerance, wind direction>>: no direction configured;
\* 20 degrees across north from the allowed one, the tolerance; one degree more.
DirectionCases == { <<<<>>, 20, 349>>, <<<<10>>, 20, 350>>, <<<<10>>, 20, 349>> }

\* wind_speed_max as the dataclass has it and as a user lowered it by
\* wind_speed_max=7, which leaves the row's wind_gust_max as it was.
WindSpeedLimits == {8, 7}

\* Every value within MaxExcess of its limit, the gust around both
\* 1.5 * wind_speed_max and wind_gust_max.
InitLimits ==
    \E wsm \in WindSpeedLimits, dc \in DirectionCases,
       temperature \in Around(DefaultLocation.temp_min),
       humidity \in Around(DefaultLocation.humidity_max),
       spread \in Around(DefaultLocation.dew_point_spread_min),
       precipitation \in Around(DefaultLocation.precipitation_probability_max) :
      \E wind_speed \in Around(wsm),
         wind_gust \in ((3 * wsm) \div 2 - MaxExcess)..(DefaultLocation.wind_gust_max + MaxExcess) :
        /\ location = [ DefaultLocation EXCEPT !.wind_speed_max = wsm,
                                               !.wind_directions = dc[1],
                                               !.wind_direction_tolerance = dc[2] ]
        /\ hour_record = WeatherOf(temperature, humidity, temperature - spread,
                                   wind_speed, wind_gust, dc[3], precipitation)

Directions == {0, 10, 180, 190, 350, 360}
AllowedLists == { <<>>, <<10>>, <<350>>, <<0, 180>>, <<90, 270>> }
Tolerances == {0, 20, 45}

\* A record good in everything else, with every combination of wind direction,
\* allowed directions and tolerance.
InitDirections ==
    \E actual \in Directions, allowed \in AllowedLists, tolerance \in Tolerances :
        /\ location = [ DefaultLocation EXCEPT !.wind_directions = allowed,
                                               !.wind_direction_tolerance = tolerance ]
        /\ hour_record = WeatherOf(10, 50, 5, 3, 3, actual, 0)

InitHour ==
    /\ InitLimits \/ InitDirections
    /\ hour_flyable = FALSE
    /\ direction_ok = FALSE
    /\ ow_data = NoneData
    /\ vc_data = NoneData
    /\ result = NoResult
    /\ day_hours = <<>>
    /\ pc = "input"
    /\ InitTracking
    /\ InitConfigIdle

\* WeatherAnalyzer._check_hour_flyable applied to the record
CheckHour ==
    /\ pc = "input"
    /\ hour_flyable' = check_hour_flyable(hour_record, location)
    /\ pc' = "checked"
    /\ UNCHANGED <<location, ow_data, vc_data, result, day_hours, hour_record, direction_ok>>
    /\ UNCHANGED tracking_vars
    /\ UNCHANGED config_vars

\* WeatherAnalyzer._check_wind_direction applied to the record's wind direction
CheckWindDirection ==
    /\ pc = "input"
    /\ direction_ok' = check_wind_direction(hour_record.wind_direction,
                                            get_wind_directions_list(location),
                                            location.wind_direction_tolerance)
    /\ pc' = "direction"
    /\ UNCHANGED <<location, ow_data, vc_data, result, day_hours, hour_record, hour_flyable>>
    /\ UNCHANGED tracking_vars
    /\ UNCHANGED config_vars

NextHour == CheckHour \/ CheckWindDirection

SpecHour == InitHour /\ [][NextHour]_vars

----------------------------------------------------------------------------
(* Window tracking: the table flyable_windows and one check cycle *)

\* The identity of a window for the diff
Key(w) == <<w.date, w.start_hour, w.end_hour, w.source>>

\* FlyableWindow built by _store_forecast: notified and cancelled default to False
FlyableWindow(window_info) ==
    [ id |-> 0,
      date |-> window_info.date,
      start_hour |-> window_info.start_hour,
      end_hour |-> window_info.end_hour,
      duration_hours |-> window_info.duration_hours,
      source |-> window_info.source,
      notified |-> FALSE, notified_at |-> 0,
      cancelled |-> FALSE, cancelled_at |-> 0 ]

\* INSERT INTO flyable_windows: the row gets the next id
create_flyable_window(table, window) ==
    Append(table, [window EXCEPT !.id = Len(table) + 1])

RECURSIVE StoreWindows(_, _)
StoreWindows(table, window_infos) ==
    IF window_infos = <<>> THEN table
    ELSE StoreWindows(create_flyable_window(table, FlyableWindow(Head(window_infos))),
                      Tail(window_infos))

store_forecast(table, res) == StoreWindows(table, res.flyable_windows)

\* ORDER BY date, start_hour
RowBefore(a, b) ==
    \/ a.date < b.date
    \/ a.date = b.date /\ a.start_hour < b.start_hour

\* WHERE cancelled = 0 AND date >= date('now')
get_active_flyable_windows(table, date_now) ==
    SortSeq(SelectSeq(table, LAMBDA r : ~r.cancelled /\ r.date >= date_now), RowBefore)

\* Mutant: WHERE notified = 1 AND date >= date('now'), cancelled rows included.
get_notified_windows_with_cancelled(table, date_now) ==
    SortSeq(SelectSeq(table, LAMBDA r : r.notified /\ r.date >= date_now), RowBefore)

\* Variant without the date condition
get_notified_windows_any_date(table, date_now) ==
    SortSeq(SelectSeq(table, LAMBDA r : r.notified /\ ~r.cancelled), RowBefore)

\* WHERE notified = 1 AND cancelled = 0 AND date >= date('now')
get_notified_windows(table, date_now) ==
    SortSeq(SelectSeq(table, LAMBDA r : r.notified /\ ~r.cancelled /\ r.date >= date_now),
            RowBefore)

\* UPDATE flyable_windows SET notified = 1, notified_at = ? WHERE id = ?
mark_window_notified(table, window_id, notified_at) ==
    [ i \in 1..Len(table) |->
        IF table[i].id = window_id
        THEN [table[i] EXCEPT !.notified = TRUE, !.notified_at = notified_at]
        ELSE table[i] ]

\* FlyableWindowInfo.to_dict: the key fields are copied
to_dict(w) ==
    [ date |-> w.date, start_hour |-> w.start_hour, end_hour |-> w.end_hour,
      duration_hours |-> w.duration_hours, source |-> w.source ]

\* Mutant: an empty forecast is taken to say nothing about the stored windows.
still_exists_unless_empty(window, current_windows) ==
    \/ current_windows = <<>>
    \/ \E i \in 1..Len(current_windows) : Key(current_windows[i]) = Key(window)

still_exists(window, current_windows) ==
    \E i \in 1..Len(current_windows) :
        /\ current_windows[i].date = window.date
        /\ current_windows[i].start_hour = window.start_hour
        /\ current_windows[i].end_hour = window.end_hour
        /\ current_windows[i].source = window.source

\* Mutant: the rows to cancel are taken from the active windows, notified or not.
cancel_windows_not_in_forecast_active(table, current_windows, cancelled_at, date_now) ==
    LET notified_windows == get_active_flyable_windows(table, date_now)
        gone == SelectSeq(notified_windows, LAMBDA w : ~still_exists(w, current_windows))
        gone_ids == {gone[j].id : j \in 1..Len(gone)}
    IN  [ table |->
            [ i \in 1..Len(table) |->
                IF table[i].id \in gone_ids
                THEN [table[i] EXCEPT !.cancelled = TRUE, !.cancelled_at = cancelled_at]
                ELSE table[i] ],
          cancelled |->
            [ j \in 1..Len(gone) |->
                [gone[j] EXCEPT !.cancelled = TRUE, !.cancelled_at = cancelled_at] ] ]

\* Returns the table after the updates and the list of cancelled windows.
cancel_windows_not_in_forecast(table, current_windows, cancelled_at, date_now) ==
    LET notified_windows == get_notified_windows(table, date_now)
        gone == SelectSeq(notified_windows, LAMBDA w : ~still_exists(w, current_windows))
        gone_ids == {gone[j].id : j \in 1..Len(gone)}
    IN  [ table |->
            [ i \in 1..Len(table) |->
                IF table[i].id \in gone_ids
                THEN [table[i] EXCEPT !.cancelled = TRUE, !.cancelled_at = cancelled_at]
                ELSE table[i] ],
          cancelled |->
            [ j \in 1..Len(gone) |->
                [gone[j] EXCEPT !.cancelled = TRUE, !.cancelled_at = cancelled_at] ] ]

\* Variant that takes every current window for new
find_new_windows_all(window_infos, notified_windows) == window_infos

\* new_windows of _handle_forecast_changes
find_new_windows(window_infos, notified_windows) ==
    LET notified_keys == {Key(notified_windows[i]) : i \in 1..Len(notified_windows)}
    IN  SelectSeq(window_infos, LAMBDA w : Key(w) \notin notified_keys)

\* The rows the nested loop over active_windows and new_windows marks as notified
RECURSIVE MarkAll(_, _, _)
MarkAll(table, ids, notified_at) ==
    IF ids = {} THEN table
    ELSE LET id == SetMin(ids)
         IN  MarkAll(mark_window_notified(table, id, notified_at), ids \ {id}, notified_at)

\* Mutant: every active row not yet notified is marked, whatever its key.
mark_new_windows_all_active(table, new, notified_at, date_now) ==
    LET active_windows == get_active_flyable_windows(table, date_now)
        ids == { active_windows[i].id : i \in
                   { k \in 1..Len(active_windows) : ~active_windows[k].notified } }
    IN  MarkAll(table, ids, notified_at)

mark_new_windows(table, new, notified_at, date_now) ==
    LET active_windows == get_active_flyable_windows(table, date_now)
        ids == { active_windows[i].id : i \in
                   { k \in 1..Len(active_windows) :
                       /\ \E n \in 1..Len(new) : Key(active_windows[k]) = Key(new[n])
                       /\ ~active_windows[k].notified } }
    IN  MarkAll(table, ids, notified_at)

\* MessageTemplates.format_windows_update_message: one combined message naming
\* the new and the cancelled windows; the empty message when there are none.
format_windows_update_message(new, cancelled) ==
    [n \in 1..Len(new) |-> <<"new", Key(new[n])>>]
    \o [c \in 1..Len(cancelled) |-> <<"cancelled", Key(cancelled[c])>>]

\* _send_windows_update_notification: delivered is "ok" or "telegram_error"
\* (logged and swallowed); nothing is sent for an empty message.
send_windows_update_notification(new, cancelled, delivered) ==
    IF format_windows_update_message(new, cancelled) = <<>> THEN "none" ELSE delivered

\* Mutant: the new windows are marked only when the send succeeded.
handle_forecast_changes_mark_on_success(table, res, date_now, delivered) ==
    LET current_windows == [i \in 1..Len(res.flyable_windows) |-> to_dict(res.flyable_windows[i])]
        notified_windows == get_notified_windows(table, date_now)
        c == cancel_windows_not_in_forecast(table, current_windows, date_now, date_now)
        new == find_new_windows(res.flyable_windows, notified_windows)
        changed == new # <<>> \/ c.cancelled # <<>>
    IN  [ table |-> IF new # <<>> /\ delivered = "ok" THEN mark_new_windows(c.table, new, date_now, date_now)
                    ELSE c.table,
          notified_windows |-> notified_windows,
          new_windows |-> new,
          cancelled_windows |-> c.cancelled,
          send |-> IF changed
                   THEN send_windows_update_notification(new, c.cancelled, delivered)
                   ELSE "none" ]

\* _handle_forecast_changes on the table left by _store_forecast
handle_forecast_changes(table, res, date_now, delivered) ==
    LET current_windows == [i \in 1..Len(res.flyable_windows) |-> to_dict(res.flyable_windows[i])]
        notified_windows == get_notified_windows(table, date_now)
        c == cancel_windows_not_in_forecast(table, current_windows, date_now, date_now)
        new == find_new_windows(res.flyable_windows, notified_windows)
        changed == new # <<>> \/ c.cancelled # <<>>
    IN  [ table |-> IF new # <<>> THEN mark_new_windows(c.table, new, date_now, date_now)
                    ELSE c.table,
          notified_windows |-> notified_windows,
          new_windows |-> new,
          cancelled_windows |-> c.cancelled,
          send |-> IF changed
                   THEN send_windows_update_notification(new, c.cancelled, delivered)
                   ELSE "none" ]

----------------------------------------------------------------------------
(* The check cycle *)

\* The location whose windows are tracked: flights between 0:00 and 3:59,
\* two flyable hours in a row required.
TrackedLocation ==
    [DefaultLocation EXCEPT !.time_window_start = 0, !.time_window_end = 3,
                            !.required_conditions_duration_hours = 2]

\* Hours a provider reports flyable on one date of a fetched forecast
GoodA == 1..2
GoodB == 0..2
GoodC == 0..3

\* A provider's forecast for the dates d and d + 1: every hour of 0..3 is
\* reported, the hours of g0 (on d) and g1 (on d + 1) with a good record.
ProviderForecast(d, g0, g1) ==
    Forecast(HourlyOf(d, [h \in 0..3 |-> IF h \in g0 THEN "G" ELSE "B"], 0, 3)
             \o HourlyOf(d + 1, [h \in 0..3 |-> IF h \in g1 THEN "G" ELSE "B"], 0, 3))

\* What the two fetches of check_location can return: within one day the
\* forecast of the day changes; over several days a window comes and goes.
FetchKinds == {"none", "A", "B", "C", "A_openweather", "openweather_failed"}
DailyFetchKinds == {"none", "A", "A_tomorrow", "openweather_failed"}

\* <<ow_data, vc_data>> fetched on day d
Fetch(kind, d) ==
    CASE kind = "none" -> <<ProviderForecast(d, {}, {}), ProviderForecast(d, {}, {})>>
      [] kind = "A" -> <<ProviderForecast(d, GoodA, {}), ProviderForecast(d, GoodA, {})>>
      [] kind = "B" -> <<ProviderForecast(d, GoodB, {}), ProviderForecast(d, GoodB, {})>>
      [] kind = "C" -> <<ProviderForecast(d, GoodC, {}), ProviderForecast(d, GoodC, {})>>
      [] kind = "A_openweather" ->
            <<ProviderForecast(d, GoodA, {}), ProviderForecast(d, {}, {})>>
      [] kind = "A_tomorrow" ->
            <<ProviderForecast(d, {}, GoodA), ProviderForecast(d, {}, GoodA)>>
      [] kind = "openweather_failed" -> <<NoneData, ProviderForecast(d, GoodA, {})>>

\* analyze_full_forecast of every fetch for the tracked location, tabulated
Analyses ==
    [ d \in 1..MaxDay, kind \in FetchKinds \cup DailyFetchKinds |->
        [ analysis |-> analyze_full_forecast(TrackedLocation, Fetch(kind, d)[1], Fetch(kind, d)[2]),
          hours |-> loop_hours(TrackedLocation, Fetch(kind, d)[1], Fetch(kind, d)[2]) ] ]

Init ==
    /\ location = TrackedLocation
    /\ ow_data = NoneData
    /\ vc_data = NoneData
    /\ result = NoResult
    /\ day_hours = <<>>
    /\ pc = "idle"
    /\ InitTracking
    /\ InitHourIdle
    /\ InitConfigIdle

\* Notifier.check_location: fetch both forecasts, analyze, store the windows,
\* diff against the notified windows, send, mark.
\* Cycles run one at a time. Of the table weather_forecasts the number of rows
\* is kept: the diff reads flyable_windows only.
check_location(kinds) ==
    /\ pc = "idle"
    /\ weather_forecasts < MaxForecasts
    /\ \E kind \in kinds, delivered \in {"ok", "telegram_error"} :
       \E f \in {Fetch(kind, today)}, a \in {Analyses[today, kind]} :
       \E stored \in {store_forecast(flyable_windows, a.analysis)} :
       \E h \in {handle_forecast_changes(stored, a.analysis, today, delivered)} :
            /\ ~a.analysis.raised
            /\ Len(stored) <= MaxRows
            /\ (h.send = "none" => delivered = "ok")
            /\ ow_data' = f[1]
            /\ vc_data' = f[2]
            /\ result' = a.analysis
            /\ day_hours' = a.hours
            /\ flyable_windows' = h.table
            /\ notified_before' = h.notified_windows
            /\ new_windows' = h.new_windows
            /\ cancelled_windows' = h.cancelled_windows
            /\ last_send' = h.send
            /\ last_op' = "check"
            /\ weather_forecasts' = weather_forecasts + 1
            /\ weather_status' = update_weather_status(weather_status, a.analysis,
                                                        weather_forecasts + 1, today)
    /\ UNCHANGED <<location, pc, today, runs>>
    /\ UNCHANGED hour_vars
    /\ UNCHANGED config_vars

\* Midnight passes: date('now') and the forecasts' first date move on.
AdvanceDay ==
    /\ pc = "idle"
    /\ today < MaxDay
    /\ today' = today + 1
    /\ last_op' = "day"
    /\ UNCHANGED <<location, ow_data, vc_data, result, day_hours, pc, flyable_windows,
                   notified_before, new_windows, cancelled_windows, last_send, runs,
                   weather_forecasts, weather_status>>
    /\ UNCHANGED hour_vars
    /\ UNCHANGED config_vars

CheckLocation == check_location(FetchKinds)

CheckLocationDaily == check_location(DailyFetchKinds)

Next == CheckLocation

Spec == Init /\ [][Next]_vars

NextDays == CheckLocationDaily \/ AdvanceDay

SpecDays == Init /\ [][NextDays]_vars

\* Mutant: the status request stores its forecast as a check cycle does.
get_location_status_stored(kinds) ==
    /\ pc = "idle"
    /\ weather_forecasts < MaxForecasts
    /\ \E kind \in kinds :
       \E f \in {Fetch(kind, today)} :
       \E a \in {analyze_full_forecast(location, f[1], f[2])} :
       \E stored \in {store_forecast(flyable_windows, a)} :
            /\ Len(stored) <= MaxRows
            /\ ow_data' = f[1]
            /\ vc_data' = f[2]
            /\ result' = IF a.raised THEN NoResult ELSE a
            /\ day_hours' = <<>>
            /\ flyable_windows' = stored
            /\ weather_forecasts' = weather_forecasts + 1
    /\ last_op' = "status"
    /\ UNCHANGED <<location, pc, today, notified_before, new_windows,
                   cancelled_windows, last_send, runs, weather_status>>
    /\ UNCHANGED hour_vars
    /\ UNCHANGED config_vars

\* Notifier.get_location_status: fetch both forecasts and analyze; an exception
\* makes it return None.  The hour lists of this analysis are local to it and
\* are not kept.
get_location_status(kinds) ==
    /\ pc = "idle"
    /\ \E kind \in kinds :
       \E f \in {Fetch(kind, today)} :
       \E a \in {analyze_full_forecast(location, f[1], f[2])} :
            /\ ow_data' = f[1]
            /\ vc_data' = f[2]
            /\ result' = IF a.raised THEN NoResult ELSE a
            /\ day_hours' = <<>>
    /\ last_op' = "status"
    /\ UNCHANGED <<location, pc, today, flyable_windows, notified_before, new_windows,
                   cancelled_windows, last_send, runs, weather_forecasts, weather_status>>
    /\ UNCHANGED hour_vars
    /\ UNCHANGED config_vars

\* What the fetches return while status requests and check cycles alternate
StatusFetchKinds == {"none", "A", "B"}

\* /status for the location
GetLocationStatus == get_location_status(StatusFetchKinds)

CheckLocationStatus == check_location(StatusFetchKinds)

NextStatus == CheckLocationStatus \/ GetLocationStatus

SpecStatus == Init /\ [][NextStatus]_vars

----------------------------------------------------------------------------
(* Two check_location calls interleaving at their await points *)

\* What the fetches of an interleaved call return
InterleavedFetchKinds == {"none", "A"}

\* The notified rows cancel_windows_not_in_forecast finds gone from the forecast
windows_to_cancel(table, current_windows, date_now) ==
    SelectSeq(get_notified_windows(table, date_now),
              LAMBDA w : ~still_exists(w, current_windows))

\* UPDATE flyable_windows SET cancelled = 1, cancelled_at = ? WHERE id = ?, for each of them
cancel_rows(table, gone, cancelled_at) ==
    [ i \in 1..Len(table) |->
        IF table[i].id \in {gone[j].id : j \in 1..Len(gone)}
        THEN [table[i] EXCEPT !.cancelled = TRUE, !.cancelled_at = cancelled_at]
        ELSE table[i] ]

\* What a call in flight leaves alone: the location, the date, and the
\* variables of the analysis and of the cycles taken one at a time
UnchangedByRun ==
    /\ UNCHANGED <<location, ow_data, vc_data, result, day_hours, pc, today, notified_before,
                   new_windows, cancelled_windows, last_send, last_op>>
    /\ UNCHANGED hour_vars
    /\ UNCHANGED config_vars

\* The two fetches and the analysis
RunFetch(r) ==
    /\ runs[r].pc = "idle"
    /\ \E kind \in InterleavedFetchKinds :
         runs' = [runs EXCEPT ![r] = [IdleRun EXCEPT !.pc = "store",
                                                     !.result = Analyses[today, kind].analysis]]
    /\ UNCHANGED <<flyable_windows, weather_forecasts, weather_status>>
    /\ UnchangedByRun

\* _store_forecast
RunStore(r) ==
    /\ runs[r].pc = "store"
    /\ weather_forecasts < MaxForecasts
    /\ Len(store_forecast(flyable_windows, runs[r].result)) <= MaxRows
    /\ flyable_windows' = store_forecast(flyable_windows, runs[r].result)
    /\ weather_forecasts' = weather_forecasts + 1
    /\ runs' = [runs EXCEPT ![r].pc = "notified", ![r].forecast_id = weather_forecasts + 1]
    /\ UNCHANGED weather_status
    /\ UnchangedByRun

\* _handle_forecast_changes: await self.db.get_notified_windows
RunGetNotified(r) ==
    /\ runs[r].pc = "notified"
    /\ runs' = [runs EXCEPT ![r].pc = "cancel",
                            ![r].notified_windows = get_notified_windows(flyable_windows, today)]
    /\ UNCHANGED <<flyable_windows, weather_forecasts, weather_status>>
    /\ UnchangedByRun

\* cancel_windows_not_in_forecast: await self.get_notified_windows, the choice
\* of the rows to cancel
RunCancelRead(r) ==
    /\ runs[r].pc = "cancel"
    /\ runs' = [runs EXCEPT
                  ![r].pc = "update",
                  ![r].to_cancel =
                      windows_to_cancel(flyable_windows,
                          [i \in 1..Len(runs[r].result.flyable_windows) |->
                              to_dict(runs[r].result.flyable_windows[i])],
                          today)]
    /\ UNCHANGED <<flyable_windows, weather_forecasts, weather_status>>
    /\ UnchangedByRun

\* cancel_windows_not_in_forecast: the updates; then new_windows is computed
RunCancelWrite(r) ==
    /\ runs[r].pc = "update"
    /\ flyable_windows' = cancel_rows(flyable_windows, runs[r].to_cancel, today)
    /\ \E new \in {find_new_windows(runs[r].result.flyable_windows, runs[r].notified_windows)} :
         runs' = [runs EXCEPT
                    ![r].pc = IF new # <<>> \/ runs[r].to_cancel # <<>> THEN "send" ELSE "status",
                    ![r].new_windows = new,
                    ![r].cancelled_windows =
                        [ j \in 1..Len(runs[r].to_cancel) |->
                            [runs[r].to_cancel[j] EXCEPT !.cancelled = TRUE,
                                                         !.cancelled_at = today] ]]
    /\ UNCHANGED <<weather_forecasts, weather_status>>
    /\ UnchangedByRun

\* _send_windows_update_notification
RunSend(r) ==
    /\ runs[r].pc = "send"
    /\ \E delivered \in {"ok", "telegram_error"} :
         runs' = [runs EXCEPT
                    ![r].pc = "mark",
                    ![r].send = send_windows_update_notification(
                                    runs[r].new_windows, runs[r].cancelled_windows, delivered)]
    /\ UNCHANGED <<flyable_windows, weather_forecasts, weather_status>>
    /\ UnchangedByRun

\* get_active_flyable_windows and mark_window_notified for the new windows
RunMark(r) ==
    /\ runs[r].pc = "mark"
    /\ flyable_windows' = IF runs[r].new_windows # <<>>
                          THEN mark_new_windows(flyable_windows, runs[r].new_windows, today, today)
                          ELSE flyable_windows
    /\ runs' = [runs EXCEPT ![r].pc = "status"]
    /\ UNCHANGED <<weather_forecasts, weather_status>>
    /\ UnchangedByRun

\* _update_weather_status: await self.db.get_weather_status
RunGetStatus(r) ==
    /\ runs[r].pc = "status"
    /\ runs' = [runs EXCEPT ![r].pc = "upsert", ![r].status = weather_status[today]]
    /\ UNCHANGED <<flyable_windows, weather_forecasts, weather_status>>
    /\ UnchangedByRun

\* _update_weather_status: await self.db.upsert_weather_status; the call returns
RunUpsertStatus(r) ==
    /\ runs[r].pc = "upsert"
    /\ weather_status' = [weather_status EXCEPT
                             ![today] = status_after(runs[r].status, runs[r].result,
                                                     runs[r].forecast_id)]
    /\ runs' = [runs EXCEPT ![r].pc = "idle"]
    /\ UNCHANGED <<flyable_windows, weather_forecasts>>
    /\ UnchangedByRun

RunStep(r) ==
    \/ RunFetch(r)
    \/ RunStore(r)
    \/ RunGetNotified(r)
    \/ RunCancelRead(r)
    \/ RunCancelWrite(r)
    \/ RunSend(r)
    \/ RunMark(r)
    \/ RunGetStatus(r)
    \/ RunUpsertStatus(r)

NextInterleaved == \E r \in RunNames : RunStep(r)

SpecInterleaved == Init /\ [][NextInterleaved]_vars

----------------------------------------------------------------------------
(* The /set_config conversation of one user in one chat *)

\* The [[locations]] entries a user submits: name and latitude, the other
\* keys valid. The entry without a name fails the validation.
LocationConfigs ==
    { [name |-> "L1", latitude |-> 10], [name |-> "L1", latitude |-> 20],
      [name |-> "L2", latitude |-> 10], [name |-> "", latitude |-> 10] }

RECURSIVE SeqsUpTo(_, _)
\* The sequences over S of length at most n
SeqsUpTo(S, n) ==
    IF n = 0 THEN {<<>>}
    ELSE LET shorter == SeqsUpTo(S, n - 1)
         IN  shorter \cup {Append(q, x) : q \in shorter, x \in S}

\* config["locations"] of the submitted configurations
Configs == SeqsUpTo(LocationConfigs, MaxConfigLocations)

\* _validate_config: whether it returns errors
validate_config(config) ==
    \/ config = <<>>
    \/ \E i \in 1..Len(config) :
            \/ config[i].name = ""
            \/ ~(-90 <= config[i].latitude /\ config[i].latitude <= 90)

\* new_names of _process_config
new_names(config) == {config[i].name : i \in 1..Len(config)}

\* existing_by_name: per name a row of that name; ORDER BY name leaves the
\* order of rows of one name open
ExistingByName(table) ==
    { f \in [{r.name : r \in table} -> {r.id : r \in table}] :
        \A n \in DOMAIN f : \E r \in table : r.id = f[n] /\ r.name = n }

RECURSIVE save_locations(_, _, _, _)
\* _save_config: the loop over config["locations"], update_location for a
\* known name and create_location for a new one
save_locations(table, seq, config, existing_by_name) ==
    IF config = <<>> THEN [locations |-> table, location_seq |-> seq]
    ELSE LET loc_config == Head(config)
         IN  IF loc_config.name \in DOMAIN existing_by_name
             THEN save_locations(
                      { IF r.id = existing_by_name[loc_config.name]
                        THEN [r EXCEPT !.latitude = loc_config.latitude]
                        ELSE r : r \in table },
                      seq, Tail(config), existing_by_name)
             ELSE save_locations(
                      table \cup {Location(seq + 1, loc_config.name, loc_config.latitude)},
                      seq + 1, Tail(config), existing_by_name)

\* delete_location(loc_id, hard_delete=True) for each id
delete_locations(table, ids) == {r \in table : r.id \notin ids}

\* What the handlers of the conversation leave alone
UnchangedByConversation ==
    /\ UNCHANGED <<location, ow_data, vc_data, result, day_hours, pc, today, notified_before,
                   new_windows, cancelled_windows, last_send, runs>>
    /\ UNCHANGED hour_vars

\* The tables of the check cycles are not written
UnchangedTables == UNCHANGED <<flyable_windows, weather_forecasts, weather_status>>

\* start_config: /set_config while no conversation is running
StartConfig ==
    /\ conversation = "END"
    /\ \E authorized \in BOOLEAN :
         conversation' = IF authorized THEN "WAITING_FOR_CONFIG" ELSE "END"
    /\ received' = Update("set_config")
    /\ last_op' = "start_config"
    /\ UNCHANGED <<locations, location_seq, user_data>>
    /\ UnchangedTables
    /\ UnchangedByConversation

\* Mutant: the locations the configuration omits are deleted at once.
process_config_delete_now(config) ==
    \E by_name \in ExistingByName({r \in locations : r.name \in new_names(config)}) :
    \E saved \in {save_locations({r \in locations : r.name \in new_names(config)},
                                  location_seq, config, by_name)} :
        /\ saved.location_seq <= MaxLocationId
        /\ locations' = saved.locations
        /\ location_seq' = saved.location_seq
        /\ conversation' = "END"
        /\ UNCHANGED user_data

\* _process_config: validate, ask for confirmation if locations would go,
\* save otherwise
process_config(config) ==
    IF validate_config(config)
    THEN /\ conversation' = "WAITING_FOR_CONFIG"
         /\ UNCHANGED <<locations, location_seq, user_data>>
    ELSE LET locations_to_delete == {r \in locations : r.name \notin new_names(config)}
         IN  IF locations_to_delete # {}
             THEN /\ user_data' = [pending_config |-> config,
                                   locations_to_delete |-> {r.id : r \in locations_to_delete}]
                  /\ conversation' = "WAITING_FOR_DELETE_CONFIRM"
                  /\ UNCHANGED <<locations, location_seq>>
             ELSE \E by_name \in ExistingByName(locations) :
                  \E saved \in {save_locations(locations, location_seq, config, by_name)} :
                      /\ saved.location_seq <= MaxLocationId
                      /\ locations' = saved.locations
                      /\ location_seq' = saved.location_seq
                      /\ conversation' = "END"
                      /\ UNCHANGED user_data

\* receive_config and receive_config_file: a text or a file that does not
\* parse, or a configuration
ReceiveConfig ==
    /\ conversation = "WAITING_FOR_CONFIG"
    /\ \/ /\ received' = Update("unparsable")
          /\ conversation' = "WAITING_FOR_CONFIG"
          /\ UNCHANGED <<locations, location_seq, user_data>>
       \/ \E config \in Configs :
            /\ received' = [update |-> "config", config |-> config]
            /\ process_config(config)
    /\ last_op' = "receive_config"
    /\ UnchangedTables
    /\ UnchangedByConversation

\* handle_delete_confirmation, the confirm button: delete, save the pending
\* configuration, clean up
ConfirmDelete ==
    /\ conversation = "WAITING_FOR_DELETE_CONFIRM"
    /\ received' = Update("cfg_del_yes_")
    /\ IF user_data.pending_config = <<>>
       THEN UNCHANGED <<locations, location_seq, user_data, flyable_windows,
                        weather_forecasts, weather_status>>
       ELSE \E remaining \in {delete_locations(locations, user_data.locations_to_delete)} :
            \E by_name \in ExistingByName(remaining) :
            \E saved \in {save_locations(remaining, location_seq,
                                          user_data.pending_config, by_name)} :
                /\ saved.location_seq <= MaxLocationId
                /\ locations' = saved.locations
                /\ location_seq' = saved.location_seq
                /\ user_data' = NoUserData
                /\ IF TrackedLocationId \in user_data.locations_to_delete
                   THEN /\ flyable_windows' = <<>>
                        /\ weather_forecasts' = 0
                        /\ weather_status' = [d \in 1..MaxDay |-> NoStatus]
                   ELSE UnchangedTables
    /\ conversation' = "END"
    /\ last_op' = "confirm"
    /\ UnchangedByConversation

\* handle_delete_confirmation, the cancel button
CancelDelete ==
    /\ conversation = "WAITING_FOR_DELETE_CONFIRM"
    /\ received' = Update("cfg_del_no_")
    /\ user_data' = NoUserData
    /\ conversation' = "END"
    /\ last_op' = "cancel_button"
    /\ UNCHANGED <<locations, location_seq>>
    /\ UnchangedTables
    /\ UnchangedByConversation

\* cancel_config: /cancel, the fallback of a running conversation
CancelConfig ==
    /\ conversation # "END"
    /\ received' = Update("cancel")
    /\ user_data' = NoUserData
    /\ conversation' = "END"
    /\ last_op' = "cancel_config"
    /\ UNCHANGED <<locations, location_seq>>
    /\ UnchangedTables
    /\ UnchangedByConversation

\* The chat has no location, the tracked one, or two of them
InitConfig ==
    /\ location = TrackedLocation
    /\ ow_data = NoneData
    /\ vc_data = NoneData
    /\ result = NoResult
    /\ day_hours = <<>>
    /\ pc = "idle"
    /\ InitTracking
    /\ InitHourIdle
    /\ conversation = "END"
    /\ \E n \in 0..2 :
         /\ locations = {Location(i, IF i = 1 THEN "L1" ELSE "L2", 10) : i \in 1..n}
         /\ location_seq = n
    /\ user_data = NoUserData
    /\ received = Update("none")

NextConfig == StartConfig \/ ReceiveConfig \/ ConfirmDelete \/ CancelDelete \/ CancelConfig

SpecConfig == InitConfig /\ [][NextConfig]_vars

----------------------------------------------------------------------------
(* Properties of the analysis, checked under SpecAnalyze *)

\* The records of one provider as the analyzer sees them
OwRecords == parse_all_hourly_data(ow_data.hourly, "openweather")
VcRecords == parse_all_hourly_data(vc_data.hourly, "visualcrossing")

\* Some record of the provider for that date and hour evaluates as flyable
FlyablePer(records, date, hour) ==
    \E i \in 1..Len(records) :
        /\ records[i].date_str = date
        /\ records[i].hour = hour
        /\ check_hour_flyable(records[i], location)

BothOf(d) == SeqToSet(day_hours[d].hours_both)
OwOnlyOf(d) == SeqToSet(day_hours[d].hours_ow_only)
VcOnlyOf(d) == SeqToSet(day_hours[d].hours_vc_only)
UnionOf(d) == BothOf(d) \cup OwOnlyOf(d) \cup VcOnlyOf(d)

TimeWindowHours == location.time_window_start..location.time_window_end

Returned == pc = "done" /\ ~result.raised

Windows == SeqToSet(result.flyable_windows)

\* C1: for every analyzed date the union of hours_both, hours_ow_only and
\* hours_vc_only contains every hour of the time window that at least one
\* provider's record evaluates as flyable, contains no hour for which both
\* providers' records are unflyable or absent, and the three buckets are
\* pairwise disjoint.
C1_UnionOfFlyableHours ==
    pc = "done" =>
        \A d \in DOMAIN day_hours :
            /\ \A h \in TimeWindowHours :
                   (FlyablePer(OwRecords, d, h) \/ FlyablePer(VcRecords, d, h))
                       => h \in UnionOf(d)
            /\ \A h \in UnionOf(d) :
                   FlyablePer(OwRecords, d, h) \/ FlyablePer(VcRecords, d, h)
            /\ BothOf(d) \cap OwOnlyOf(d) = {}
            /\ BothOf(d) \cap VcOnlyOf(d) = {}
            /\ OwOnlyOf(d) \cap VcOnlyOf(d) = {}

\* A date with an hour in each bucket, including the last hour of the time
\* window, and an hour of the window in none.
C1_Witness ==
    /\ pc = "done"
    /\ \E d \in DOMAIN day_hours :
           /\ BothOf(d) # {} /\ OwOnlyOf(d) # {} /\ VcOnlyOf(d) # {}
           /\ location.time_window_end \in UnionOf(d)
           /\ TimeWindowHours \ UnionOf(d) # {}

\* C2: when required_conditions_duration_hours >= 1, no returned window has
\* duration_hours smaller than required_conditions_duration_hours.
C2_MinimumDuration ==
    (Returned /\ location.required_conditions_duration_hours >= 1) =>
        \A w \in Windows : w.duration_hours >= location.required_conditions_duration_hours

\* A window of exactly the required duration is returned while a shorter run of
\* flyable hours after it is discarded.
C2_Witness ==
    /\ Returned
    /\ location.required_conditions_duration_hours >= 2
    /\ \E w \in Windows :
           /\ w.duration_hours = location.required_conditions_duration_hours
           /\ \E h \in UnionOf(w.date) : h > w.end_hour + 1

\* C3: every hour in start_hour..end_hour of a returned window belongs to the
\* flyable-hour union of the window's date, and duration_hours =
\* end_hour - start_hour + 1.
C3_Contiguity ==
    Returned =>
        \A w \in Windows :
            /\ w.date \in DOMAIN day_hours
            /\ \A h \in w.start_hour..w.end_hour : h \in UnionOf(w.date)
            /\ w.duration_hours = w.end_hour - w.start_hour + 1

\* Two windows of one date, separated by a gap, one of them longer than an hour.
C3_Witness ==
    /\ Returned
    /\ \E w1, w2 \in Windows :
           /\ w1.date = w2.date
           /\ w1.end_hour < w2.start_hour
           /\ w1.duration_hours + w2.duration_hours >= 3

\* The source tag the claim prescribes for the hours of a window
ExpectedSource(w) ==
    LET hours == w.start_hour..w.end_hour
        ow(h) == FlyablePer(OwRecords, w.date, h)
        vc(h) == FlyablePer(VcRecords, w.date, h)
    IN  IF \A h \in hours : ow(h) /\ vc(h) THEN "both"
        ELSE IF ~\E h \in hours : vc(h) /\ ~ow(h) THEN "openweather"
        ELSE IF ~\E h \in hours : ow(h) /\ ~vc(h) THEN "visualcrossing"
        ELSE "mixed"

\* C4: the source of every window is "both" exactly when every hour is flyable
\* per both providers; otherwise "openweather" exactly when no hour is
\* VisualCrossing-only; otherwise "visualcrossing" exactly when no hour is
\* OpenWeather-only; otherwise "mixed".
C4_SourceTag ==
    Returned => \A w \in Windows : w.source = ExpectedSource(w)

\* A single-provider window that also contains an hour both providers agree on.
C4_Witness ==
    /\ Returned
    /\ \E w \in Windows :
           /\ w.source = "openweather"
           /\ \E h \in w.start_hour..w.end_hour :
                  FlyablePer(OwRecords, w.date, h) /\ FlyablePer(VcRecords, w.date, h)
           /\ \E h \in w.start_hour..w.end_hour :
                  FlyablePer(OwRecords, w.date, h) /\ ~FlyablePer(VcRecords, w.date, h)

\* Scenario 1: the default location (time window 8..18, 4 hours required), one
\* provider flyable on 9..14, the other on 10..13 and one degree too cold on the
\* hours 9 and 14.
ScenarioForecast(good) ==
    Forecast(HourlyOf(1, [h \in 8..18 |-> IF h \in good THEN "G" ELSE "B"], 8, 18))

Scenario1Input ==
    /\ location = DefaultLocation
    /\ \/ ow_data = ScenarioForecast(9..14) /\ vc_data = ScenarioForecast(10..13)
       \/ vc_data = ScenarioForecast(9..14) /\ ow_data = ScenarioForecast(10..13)

Scenario1Window ==
    /\ ~result.raised
    /\ day_hours[1].hours_union = <<9, 10, 11, 12, 13, 14>>
    /\ Len(result.flyable_windows) = 1
    /\ result.flyable_windows[1].date = 1
    /\ result.flyable_windows[1].start_hour = 9
    /\ result.flyable_windows[1].end_hour = 14
    /\ result.flyable_windows[1].duration_hours = 6

\* C5 as stated: the scenario yields the union {9..14} and exactly one window
\* 09-14 of duration 6 whose source is "mixed".
C5_Original ==
    (pc = "done" /\ Scenario1Input) =>
        /\ Scenario1Window
        /\ result.flyable_windows[1].source = "mixed"

\* C5: the scenario yields the union {9..14} and exactly one window 09-14 of
\* duration 6 whose source is the provider that is flyable on all of 9..14:
\* "openweather" when that is OpenWeather, "visualcrossing" when it is
\* VisualCrossing.
C5_Scenario1 ==
    (pc = "done" /\ Scenario1Input) =>
        /\ Scenario1Window
        /\ result.flyable_windows[1].source =
               IF ow_data = ScenarioForecast(9..14) THEN "openweather" ELSE "visualcrossing"

\* The scenario has been analyzed with OpenWeather as the provider flyable on 9..14.
C5_Witness ==
    /\ pc = "done"
    /\ Scenario1Input
    /\ ow_data = ScenarioForecast(9..14)
    /\ result.has_flyable_conditions

\* The maximal runs of consecutive hours of a set
IsMaximalRun(U, a, b) ==
    /\ a <= b
    /\ \A h \in a..b : h \in U
    /\ (a - 1) \notin U
    /\ (b + 1) \notin U

\* C6: for every returned window neither start_hour - 1 nor end_hour + 1 is in
\* the date's union, two windows of one date neither overlap nor touch, and
\* every maximal run of union hours at least as long as the required duration
\* is returned as exactly one window.
C6_MaximalRuns ==
    Returned =>
        /\ \A w \in Windows :
               /\ (w.start_hour - 1) \notin UnionOf(w.date)
               /\ (w.end_hour + 1) \notin UnionOf(w.date)
        /\ \A i, j \in 1..Len(result.flyable_windows) :
               LET w1 == result.flyable_windows[i]
                   w2 == result.flyable_windows[j]
               IN  (i # j /\ w1.date = w2.date) =>
                       (w1.end_hour + 1 < w2.start_hour \/ w2.end_hour + 1 < w1.start_hour)
        /\ \A d \in DOMAIN day_hours :
               \A a, b \in UnionOf(d) :
                   (/\ IsMaximalRun(UnionOf(d), a, b)
                    /\ b - a + 1 >= location.required_conditions_duration_hours) =>
                       Cardinality({ i \in 1..Len(result.flyable_windows) :
                                       /\ result.flyable_windows[i].date = d
                                       /\ result.flyable_windows[i].start_hour = a
                                       /\ result.flyable_windows[i].end_hour = b }) = 1

\* Two windows of one date with a single unflyable hour between them.
C6_Witness ==
    /\ Returned
    /\ location.required_conditions_duration_hours >= 2
    /\ \E w1, w2 \in Windows :
           /\ w1.date = w2.date
           /\ w1.end_hour + 2 = w2.start_hour

\* C10: when either forecast passed to analyze_full_forecast is None or empty,
\* the call returns a result with has_flyable_conditions = FALSE, no windows and
\* a rejection reason for each missing provider and for no other provider.
C10_MissingProvider ==
    (pc = "done" /\ (~Truthy(ow_data) \/ ~Truthy(vc_data))) =>
        /\ ~result.raised
        /\ result.has_flyable_conditions = FALSE
        /\ result.flyable_windows = <<>>
        /\ (ReasonNoOpenWeather \in SeqToSet(result.rejection_reasons)) <=> ~Truthy(ow_data)
        /\ (ReasonNoVisualCrossing \in SeqToSet(result.rejection_reasons)) <=> ~Truthy(vc_data)

\* Both providers missing, one as None and one as an empty dict.
C10_Witness ==
    /\ pc = "done"
    /\ ow_data = NoneData
    /\ vc_data = EmptyData
    /\ Len(result.rejection_reasons) = 2

----------------------------------------------------------------------------
(* Properties of the check cycle, checked under Spec and SpecDays *)

Rows(table) == {table[i] : i \in 1..Len(table)}

Keys(ws) == {Key(ws[i]) : i \in 1..Len(ws)}

Ids(ws) == {ws[i].id : i \in 1..Len(ws)}

\* A step of the check cycle
CheckStep == last_op' = "check"

\* Rows of the table that are notified and not cancelled
NotifiedRows(table) == {r \in Rows(table) : r.notified /\ ~r.cancelled}

\* The same, among the rows dated today or later
UpcomingNotifiedRows(table) == {r \in NotifiedRows(table) : r.date >= today}

\* new_windows' and cancelled_windows' are the diff of the current windows
\* against the set of rows `previous`
DiffAgainst(previous) ==
    /\ new_windows' = SelectSeq(result'.flyable_windows,
                                LAMBDA w : Key(w) \notin {Key(r) : r \in previous})
    /\ Ids(cancelled_windows') =
         {r.id : r \in {q \in previous : Key(q) \notin Keys(result'.flyable_windows)}}
    /\ Len(cancelled_windows') = Cardinality(Ids(cancelled_windows'))
    /\ \A i \in 1..Len(cancelled_windows') :
         \E r \in previous : /\ r.id = cancelled_windows'[i].id
                             /\ Key(r) = Key(cancelled_windows'[i])

\* C7 as stated: in a check cycle new_windows is exactly the current windows
\* whose key is not the key of a notified, non-cancelled window of the
\* location, and cancelled_windows is exactly the notified, non-cancelled
\* windows whose key is not the key of a current window.
C7_Original == [][CheckStep => DiffAgainst(NotifiedRows(flyable_windows))]_vars

\* C7 amended: the diff is taken against the notified, non-cancelled windows
\* dated today or later; a notified window of a past date is neither cancelled
\* nor reported.
C7_WindowDiff == [][CheckStep => DiffAgainst(UpcomingNotifiedRows(flyable_windows))]_vars

\* One window was notified, the current forecast has no window: nothing is new
\* and that one record is cancelled.
C7_Witness ==
    /\ last_op = "check"
    /\ Len(notified_before) = 1
    /\ result.flyable_windows = <<>>
    /\ new_windows = <<>>
    /\ Len(cancelled_windows) = 1
    /\ cancelled_windows[1].id = notified_before[1].id
    /\ \E r \in Rows(flyable_windows) : r.id = notified_before[1].id /\ r.cancelled

\* Every window the last cycle reported as new is recorded as notified
NewWindowsRecorded ==
    \A i \in 1..Len(new_windows) :
        \E r \in NotifiedRows(flyable_windows) : Key(r) = Key(new_windows[i])

\* C8: when a check cycle has run and recorded its new windows as notified, and
\* the next cycle finds the same set of current windows, the next cycle has no
\* new and no cancelled window and sends nothing.
C8_DiffIdempotence ==
    [][ ( /\ last_op = "check"
          /\ CheckStep
          /\ NewWindowsRecorded
          /\ Keys(result'.flyable_windows) = Keys(result.flyable_windows) )
        => ( /\ new_windows' = <<>>
             /\ cancelled_windows' = <<>>
             /\ last_send' = "none" ) ]_vars

\* A second cycle has seen the window of the first one again: its fresh row
\* stays unnotified next to the notified one and the cycle reports nothing.
C8_Witness ==
    /\ last_op = "check"
    /\ result.flyable_windows # <<>>
    /\ new_windows = <<>>
    /\ cancelled_windows = <<>>
    /\ last_send = "none"
    /\ \E r \in NotifiedRows(flyable_windows), q \in Rows(flyable_windows) :
         /\ Key(r) = Key(result.flyable_windows[1])
         /\ Key(q) = Key(r)
         /\ q.id > r.id
         /\ ~q.notified

\* The window v is the window w with its start or its end moved by one hour,
\* or with another source label
ShiftedByOne(w, v) ==
    /\ w.date = v.date
    /\ \/ Abs(w.start_hour - v.start_hour) = 1 /\ w.end_hour = v.end_hour /\ w.source = v.source
       \/ w.start_hour = v.start_hour /\ Abs(w.end_hour - v.end_hour) = 1 /\ w.source = v.source
       \/ w.start_hour = v.start_hour /\ w.end_hour = v.end_hour /\ w.source # v.source

\* C9: when the one window of the last cycle is notified and the next forecast
\* has it with the start or the end shifted by one hour (or with another source
\* label), the cycle reports exactly one cancellation, of the old key, and
\* exactly one new window, of the new key.
C9_ExactKeyMatching ==
    [][ ( /\ last_op = "check"
          /\ CheckStep
          /\ Len(result.flyable_windows) = 1
          /\ Len(result'.flyable_windows) = 1
          /\ ShiftedByOne(result.flyable_windows[1], result'.flyable_windows[1])
          /\ \E r \in NotifiedRows(flyable_windows) : Key(r) = Key(result.flyable_windows[1]) )
        => ( /\ Len(new_windows') = 1
             /\ Key(new_windows'[1]) = Key(result'.flyable_windows[1])
             /\ Len(cancelled_windows') = 1
             /\ Key(cancelled_windows'[1]) = Key(result.flyable_windows[1]) ) ]_vars

----------------------------------------------------------------------------
(* Properties of the analysis over several dates, checked under SpecDates *)

\* The dates a provider's parsed records carry
OwDates == {OwRecords[i].date_str : i \in 1..Len(OwRecords)}
VcDates == {VcRecords[i].date_str : i \in 1..Len(VcRecords)}

\* The hours of date d a provider has a flyable record for
FlyableHoursOn(records, d) ==
    {h \in TimeWindowHours : FlyablePer(records, d, h)}

----------------------------------------------------------------------------
(* Rejection reasons of an analysis that reached the loop over the dates,
   checked under SpecAnalyze *)

\* The (date, hour) pairs of the common dates and the time window that some
\* provider's record evaluates as flyable
FlyablePairs ==
    { p \in (OwDates \cap VcDates) \X TimeWindowHours :
        FlyablePer(OwRecords, p[1], p[2]) \/ FlyablePer(VcRecords, p[1], p[2]) }

Reasons == SeqToSet(result.rejection_reasons)

\* C12: when the providers have a date in common and the analysis returns no
\* window, the reasons contain "no continuous windows of at least N hours" for
\* the required duration, and contain "N flyable hours found but not
\* contiguous" exactly when some hour was flyable, N being the number of
\* flyable hours; when it returns a window, there are no reasons.
C12_RejectionReasons ==
    (Returned /\ OwDates \cap VcDates # {}) =>
        IF result.flyable_windows = <<>>
        THEN /\ ReasonNoWindows(location.required_conditions_duration_hours) \in Reasons
             /\ (\E r \in Reasons : r[1] = ReasonNotContiguous(0)[1])
                   <=> result.total_flyable_hours > 0
             /\ result.total_flyable_hours = Cardinality(FlyablePairs)
             /\ \A r \in Reasons :
                   r[1] = ReasonNotContiguous(0)[1] => r[2] = Cardinality(FlyablePairs)
        ELSE result.rejection_reasons = <<>>

\* Flyable hours 8, 9, 12 and 13, no run as long as required: no window, and
\* the reason reports 4 hours.
C12_Witness ==
    /\ Returned
    /\ result.flyable_windows = <<>>
    /\ {p[2] : p \in FlyablePairs} = {8, 9, 12, 13}
    /\ result.rejection_reasons =
         <<ReasonNoWindows(location.required_conditions_duration_hours),
           ReasonNotContiguous(4)>>

\* All hours unflyable: the single reason is the one about the required duration.
C12_WitnessNoHours ==
    /\ Returned
    /\ OwDates \cap VcDates # {}
    /\ FlyablePairs = {}
    /\ result.rejection_reasons =
         <<ReasonNoWindows(location.required_conditions_duration_hours)>>

----------------------------------------------------------------------------
(* Invariants of the returned result, checked under SpecDates *)

\* C13: whichever way analyze_full_forecast returns (a provider missing, no
\* hourly records, no common date, or the dates analyzed), has_flyable_conditions
\* is true exactly when flyable_windows is not empty.
C13_HasFlyableIffWindows ==
    Returned => (result.has_flyable_conditions <=> result.flyable_windows # <<>>)

\* The analysis of the common dates returned a window and reports flyable
\* conditions.
C13_Witness ==
    /\ Returned
    /\ result.flyable_windows # <<>>
    /\ result.has_flyable_conditions
    /\ result.rejection_reasons = <<>>

\* C14: the returned flyable_windows are in strictly ascending order of
\* (date, start_hour): each entry's date is earlier than the next one's, or the
\* dates are equal and its start hour is smaller, so no two entries share both.
C14_WindowsSorted ==
    Returned =>
        \A i \in 1..Len(result.flyable_windows), j \in 1..Len(result.flyable_windows) :
            i < j =>
                \/ result.flyable_windows[i].date < result.flyable_windows[j].date
                \/ /\ result.flyable_windows[i].date = result.flyable_windows[j].date
                   /\ result.flyable_windows[i].start_hour < result.flyable_windows[j].start_hour

\* Windows on two dates, the one of the later date starting at the earlier
\* hour, from an OpenWeather list that has the later date first.
C14_Witness ==
    /\ Returned
    /\ Len(result.flyable_windows) = 2
    /\ result.flyable_windows[1].date < result.flyable_windows[2].date
    /\ result.flyable_windows[1].start_hour > result.flyable_windows[2].start_hour
    /\ Len(OwRecords) > 1
    /\ OwRecords[1].date_str > OwRecords[Len(OwRecords)].date_str

\* The entries of a provider's hourly list whose datetime parses or that carry
\* a timestamp
UsableEntries(data) ==
    { i \in 1..Len(data.hourly) :
        data.hourly[i].datetime[1] \in {"full", "date"} \/ data.hourly[i].timestamp # 0 }

\* C19: with a required duration of at least 1 the analysis returns a result
\* for every pair of forecasts: the entries with an unparsable datetime and no
\* timestamp are left out of the hour counts, and when a provider ends up with
\* no hourly record the result has no window, has_flyable_conditions false and
\* at least one rejection reason.
C19_TotalOverForecasts ==
    (pc = "done" /\ location.required_conditions_duration_hours >= 1) =>
        /\ ~result.raised
        /\ (Truthy(ow_data) /\ Truthy(vc_data)) =>
              /\ result.openweather_hours = Cardinality(UsableEntries(ow_data))
              /\ result.visualcrossing_hours = Cardinality(UsableEntries(vc_data))
        /\ (UsableEntries(ow_data) = {} \/ UsableEntries(vc_data) = {}) =>
              /\ result.flyable_windows = <<>>
              /\ ~result.has_flyable_conditions
              /\ result.rejection_reasons # <<>>

\* OpenWeather delivers entries, none with a usable datetime or timestamp,
\* VisualCrossing delivers records: the result carries the reason that the
\* forecasts have no hourly data.
C19_Witness ==
    /\ pc = "done"
    /\ ~result.raised
    /\ ow_data.hourly # <<>>
    /\ UsableEntries(ow_data) = {}
    /\ UsableEntries(vc_data) # {}
    /\ result.flyable_windows = <<>>
    /\ result.rejection_reasons = <<ReasonNoHourly>>

----------------------------------------------------------------------------
(* Properties of the hour evaluation, checked under SpecHour *)

\* The single checks, on the record and the location under evaluation
TemperatureOk == hour_record.temperature >= location.temp_min
HumidityOk == hour_record.humidity <= location.humidity_max
WindSpeedOk == hour_record.wind_speed <= location.wind_speed_max
GustWithinSpeedFactor == 2 * hour_record.wind_gust <= 3 * location.wind_speed_max
DewSpreadOk ==
    hour_record.temperature - hour_record.dew_point >= location.dew_point_spread_min
PrecipitationOk ==
    hour_record.precipitation_probability <= location.precipitation_probability_max

\* Distance of two compass directions along the shorter arc
CircularDistance(a, b) ==
    IF (a - b) % 360 < (b - a) % 360 THEN (a - b) % 360 ELSE (b - a) % 360

AllowedDirections == SeqToSet(location.wind_directions)

DirectionOk ==
    \/ AllowedDirections = {}
    \/ \E b \in AllowedDirections :
          CircularDistance(hour_record.wind_direction, b) <= location.wind_direction_tolerance

\* C15: an hour is flyable exactly when all checks hold together: temperature
\* at least temp_min, humidity at most humidity_max, wind speed at most
\* wind_speed_max, the gust check (as the evaluation performs it: gust at most
\* 1.5 times wind_speed_max), the direction check unless no direction is
\* configured, dew point spread at least dew_point_spread_min and precipitation
\* probability at most its maximum; a value equal to its limit passes.
C15_HourFlyable ==
    pc = "checked" =>
        ( hour_flyable <=>
            /\ TemperatureOk
            /\ HumidityOk
            /\ WindSpeedOk
            /\ GustWithinSpeedFactor
            /\ DirectionOk
            /\ DewSpreadOk
            /\ PrecipitationOk )

\* An hour with every value exactly on its limit is flyable.
C15_Witness ==
    /\ pc = "checked"
    /\ hour_flyable
    /\ hour_record.temperature = location.temp_min
    /\ hour_record.humidity = location.humidity_max
    /\ hour_record.wind_speed = location.wind_speed_max
    /\ 2 * hour_record.wind_gust = 3 * location.wind_speed_max
    /\ \E b \in AllowedDirections :
         CircularDistance(hour_record.wind_direction, b) = location.wind_direction_tolerance
    /\ hour_record.temperature - hour_record.dew_point = location.dew_point_spread_min
    /\ hour_record.precipitation_probability = location.precipitation_probability_max

\* C16: for a location whose wind_gust_max differs from 1.5 times
\* wind_speed_max, an hour that passes every other check is flyable exactly
\* when its gust is at most wind_gust_max.
C16_GustAgainstGustMax ==
    ( /\ pc = "checked"
      /\ 2 * location.wind_gust_max # 3 * location.wind_speed_max
      /\ TemperatureOk /\ HumidityOk /\ WindSpeedOk /\ DirectionOk
      /\ DewSpreadOk /\ PrecipitationOk )
        => (hour_flyable <=> hour_record.wind_gust <= location.wind_gust_max)

\* C17: the direction check passes exactly when some allowed direction lies
\* within the tolerance of the wind direction along the shorter arc of the
\* compass, whichever side of north the two are on; exchanging the wind
\* direction with an allowed direction does not change the outcome; and with
\* no direction configured, an hour that passes the other checks is flyable.
C17_DirectionCheck ==
    /\ pc = "direction" =>
          /\ direction_ok <=>
                \E b \in AllowedDirections :
                    CircularDistance(hour_record.wind_direction, b)
                        <= location.wind_direction_tolerance
          /\ \A b \in AllowedDirections :
                check_wind_direction(hour_record.wind_direction, <<b>>,
                                     location.wind_direction_tolerance)
                  = check_wind_direction(b, <<hour_record.wind_direction>>,
                                         location.wind_direction_tolerance)
    /\ ( /\ pc = "checked"
         /\ AllowedDirections = {}
         /\ TemperatureOk /\ HumidityOk /\ WindSpeedOk /\ GustWithinSpeedFactor
         /\ DewSpreadOk /\ PrecipitationOk )
          => hour_flyable

\* Wind from 350 degrees, 10 degrees allowed, tolerance 20: the check passes
\* across north.
C17_Witness ==
    /\ pc = "direction"
    /\ direction_ok
    /\ hour_record.wind_direction = 350
    /\ location.wind_directions = <<10>>
    /\ location.wind_direction_tolerance = 20

----------------------------------------------------------------------------
(* Window statistics and the time window, checked under SpecAnalyze *)

\* The records of both providers for the date and the hours of window w,
\* flyable or not
RecordsIn(w) ==
    { r \in SeqToSet(OwRecords) \cup SeqToSet(VcRecords) :
        r.date_str = w.date /\ r.hour \in w.start_hour..w.end_hour }

\* C18: the statistics of every returned window are those of all records of
\* both providers for the window's date and hours, the records that failed the
\* evaluation included: min_temp and max_temp are the lowest and highest of
\* their temperatures, max_wind_speed the highest of their wind speeds.
C18_WindowStatistics ==
    Returned =>
        \A w \in Windows :
            /\ RecordsIn(w) # {}
            /\ w.min_temp = SetMin({r.temperature : r \in RecordsIn(w)})
            /\ w.max_temp = SetMax({r.temperature : r \in RecordsIn(w)})
            /\ w.max_wind_speed = SetMax({r.wind_speed : r \in RecordsIn(w)})

\* A window over hours only one provider found flyable reports a minimum
\* temperature below temp_min and a maximum wind speed above wind_speed_max,
\* while the date has records outside the window.
C18_Witness ==
    /\ Returned
    /\ \E w \in Windows :
         /\ w.min_temp < location.temp_min
         /\ w.max_wind_speed > location.wind_speed_max
         /\ w.max_temp > w.min_temp
         /\ \E r \in SeqToSet(OwRecords) : r.hour \notin w.start_hour..w.end_hour

\* Some record of the provider exists for that date and hour
HasRecord(records, date, hour) ==
    \E i \in 1..Len(records) : records[i].date_str = date /\ records[i].hour = hour

\* C20: every returned window lies inside the location's time window
\* (time_window_start <= start_hour <= end_hour <= time_window_end); an hour
\* is attributed to a provider only if the provider has a record for it; and
\* no hour outside the time window is in the union of an analyzed date,
\* whatever the providers report for it.
C20_InsideTimeWindow ==
    Returned =>
        /\ \A w \in Windows :
              /\ location.time_window_start <= w.start_hour
              /\ w.start_hour <= w.end_hour
              /\ w.end_hour <= location.time_window_end
        /\ \A d \in DOMAIN day_hours :
              /\ UnionOf(d) \subseteq TimeWindowHours
              /\ \A h \in BothOf(d) \cup OwOnlyOf(d) : HasRecord(OwRecords, d, h)
              /\ \A h \in BothOf(d) \cup VcOnlyOf(d) : HasRecord(VcRecords, d, h)

\* Both providers report an hour before the time window flyable, the window
\* found starts with the time window, at an hour one provider has no record for.
C20_Witness ==
    /\ Returned
    /\ \E w \in Windows :
         /\ w.start_hour = location.time_window_start
         /\ ~HasRecord(OwRecords, w.date, w.start_hour)
         /\ \E h \in 0..(location.time_window_start - 1) :
              FlyablePer(OwRecords, w.date, h) /\ FlyablePer(VcRecords, w.date, h)

----------------------------------------------------------------------------
(* The hour total of the analysis, checked under SpecDates *)

RECURSIVE DurationSum(_)
DurationSum(ws) == IF ws = <<>> THEN 0 ELSE Head(ws).duration_hours + DurationSum(Tail(ws))

\* The flyable (date, hour) pairs no returned window covers: the hours of the
\* runs discarded as too short
DiscardedPairs ==
    { p \in FlyablePairs :
        ~\E w \in Windows : w.date = p[1] /\ p[2] \in w.start_hour..w.end_hour }

\* C21: total_flyable_hours is the number of flyable hours of all analyzed
\* dates together, the hours of runs discarded as too short included; it is at
\* least the sum of duration_hours of the returned windows, and equal to it
\* exactly when no run was discarded.
C21_TotalFlyableHours ==
    Returned =>
        /\ result.total_flyable_hours = Cardinality(FlyablePairs)
        /\ result.total_flyable_hours >= DurationSum(result.flyable_windows)
        /\ (result.total_flyable_hours = DurationSum(result.flyable_windows))
              <=> DiscardedPairs = {}

\* One date's single flyable hour is discarded for a required duration of 2,
\* another date's two hours form a window: 3 hours in total, 2 in windows.
C21_Witness ==
    /\ Returned
    /\ Len(result.flyable_windows) = 1
    /\ result.total_flyable_hours = 3
    /\ DurationSum(result.flyable_windows) = 2
    /\ \E p \in DiscardedPairs : p[1] > result.flyable_windows[1].date

----------------------------------------------------------------------------
(* Flags of the stored rows over check cycles, checked under Spec *)

\* The row of the table with the given id
RowOf(table, id) == CHOOSE r \in Rows(table) : r.id = id

\* C22: in a check cycle that reports changes, every key of new_windows has a
\* stored row that is notified and not cancelled, and every record of
\* cancelled_windows, like its stored row, is cancelled with cancelled_at set;
\* in any check cycle a row that is neither of a new key nor among the
\* cancelled records keeps its notified and cancelled flags (a row the cycle
\* has just stored has both flags unset).
C22_FlagsAfterCycle ==
    [][ CheckStep =>
          /\ (new_windows' # <<>> \/ cancelled_windows' # <<>>) =>
                /\ \A i \in 1..Len(new_windows') :
                      \E r \in Rows(flyable_windows') :
                          Key(r) = Key(new_windows'[i]) /\ r.notified /\ ~r.cancelled
                /\ \A j \in 1..Len(cancelled_windows') :
                      /\ cancelled_windows'[j].cancelled
                      /\ cancelled_windows'[j].cancelled_at # 0
                      /\ RowOf(flyable_windows', cancelled_windows'[j].id).cancelled
                      /\ RowOf(flyable_windows', cancelled_windows'[j].id).cancelled_at # 0
          /\ \A r \in Rows(flyable_windows') :
                (Key(r) \notin Keys(new_windows') /\ r.id \notin Ids(cancelled_windows')) =>
                    IF r.id \in Ids(flyable_windows)
                    THEN /\ r.notified = RowOf(flyable_windows, r.id).notified
                         /\ r.cancelled = RowOf(flyable_windows, r.id).cancelled
                    ELSE ~r.notified /\ ~r.cancelled ]_vars

\* A cycle reports a new window and a cancelled one; a row cancelled by an
\* earlier cycle and the now notified row of the new key are both stored.
C22_Witness ==
    /\ last_op = "check"
    /\ new_windows # <<>>
    /\ cancelled_windows # <<>>
    /\ \E r \in Rows(flyable_windows) :
         /\ r.cancelled
         /\ r.id \notin Ids(cancelled_windows)
         /\ Key(r) \notin Keys(new_windows)
    /\ \E r \in Rows(flyable_windows) :
         Key(r) = Key(new_windows[1]) /\ r.notified /\ ~r.cancelled

\* The keys some cancelled row of the table carries
CancelledKeys(table) == {Key(r) : r \in {q \in Rows(table) : q.cancelled}}

\* C23: a current window whose key was notified and cancelled before, and has
\* no notified, non-cancelled row now, is reported in new_windows again; and a
\* window notified again after a cancellation of its key is cancelled again
\* when the key leaves the forecast.
C23_ReannouncedAfterCancel ==
    [][ CheckStep =>
          /\ \A i \in 1..Len(result'.flyable_windows) :
                ( /\ Key(result'.flyable_windows[i]) \in CancelledKeys(flyable_windows)
                  /\ Key(result'.flyable_windows[i])
                        \notin {Key(r) : r \in UpcomingNotifiedRows(flyable_windows)} )
                    => \E n \in 1..Len(new_windows') :
                           new_windows'[n] = result'.flyable_windows[i]
          /\ \A r \in UpcomingNotifiedRows(flyable_windows) :
                ( /\ Key(r) \in CancelledKeys(flyable_windows)
                  /\ Key(r) \notin Keys(result'.flyable_windows) )
                    => r.id \in Ids(cancelled_windows') ]_vars

\* The key was notified, cancelled, notified again and is cancelled again by
\* the last cycle: two cancelled rows carry it, the later one cancelled now.
C23_Witness ==
    /\ last_op = "check"
    /\ Len(cancelled_windows) = 1
    /\ \E q \in Rows(flyable_windows) :
         /\ q.cancelled
         /\ q.notified
         /\ q.id < cancelled_windows[1].id
         /\ Key(q) = Key(cancelled_windows[1])
    /\ ~\E r \in NotifiedRows(flyable_windows) : Key(r) = Key(cancelled_windows[1])

----------------------------------------------------------------------------
(* A failed fetch in a check cycle, checked under SpecDays *)

\* A provider's fetch failed or returned no data
FetchFailed(ow, vc) == ~Truthy(ow) \/ ~Truthy(vc)

\* In a cycle with a failed fetch the analysis has no window and every row of
\* `previous` is cancelled and reported; in the cycle after it, fetched from
\* both providers, every current window is reported as new.
CancelledOnFailure(previous) ==
    /\ FetchFailed(ow_data', vc_data') =>
          /\ result'.flyable_windows = <<>>
          /\ \A r \in previous :
                /\ r.id \in Ids(cancelled_windows')
                /\ RowOf(flyable_windows', r.id).cancelled
    /\ (last_op = "check" /\ FetchFailed(ow_data, vc_data)
          /\ ~FetchFailed(ow_data', vc_data')) =>
          new_windows' = result'.flyable_windows

\* C24 as stated: when a fetch fails, every notified, non-cancelled window of
\* the location is cancelled and reported in that cycle, and the windows of the
\* next successful cycle are reported as new.
C24_Original == [][CheckStep => CancelledOnFailure(NotifiedRows(flyable_windows))]_vars

\* C24 amended: when a fetch fails, every notified, non-cancelled window dated
\* today or later is cancelled and reported in that cycle, and the windows of
\* the next successful cycle are reported as new.
C24_CancelledOnFailure ==
    [][CheckStep => CancelledOnFailure(UpcomingNotifiedRows(flyable_windows))]_vars

\* The OpenWeather fetch failed: the notified window of today is cancelled
\* and reported, the notified window of yesterday is left as it was.
C24_Witness ==
    /\ last_op = "check"
    /\ FetchFailed(ow_data, vc_data)
    /\ result.flyable_windows = <<>>
    /\ \E i \in 1..Len(cancelled_windows) : cancelled_windows[i].date = today
    /\ \E r \in NotifiedRows(flyable_windows) : r.date < today

----------------------------------------------------------------------------
(* Rows per key, checked under Spec *)

\* C25: after any sequence of check cycles at most one stored row per key
\* (date, start_hour, end_hour, source) is notified and not cancelled, and
\* the cancelled_windows of a cycle hold at most one record per key.
C25_OneNotifiedRowPerKey ==
    /\ \A r, q \in NotifiedRows(flyable_windows) : Key(r) = Key(q) => r.id = q.id
    /\ \A i, j \in 1..Len(cancelled_windows) :
          Key(cancelled_windows[i]) = Key(cancelled_windows[j]) => i = j

----------------------------------------------------------------------------
(* Interleaved check cycles, checked under SpecInterleaved *)

\* The run has sent its windows update and not yet recorded it
HasSent(r) == runs[r].pc = "mark" /\ runs[r].send = "ok"

\* C26: when the scheduled check and a manual check of one location
\* interleave, no window key is in the new windows of the updates both of them
\* send, and no stored window is in the cancelled windows of both.
C26_AtMostOneReport ==
    (HasSent("scheduled") /\ HasSent("manual")) =>
        /\ Keys(runs["scheduled"].new_windows) \cap Keys(runs["manual"].new_windows) = {}
        /\ Ids(runs["scheduled"].cancelled_windows)
              \cap Ids(runs["manual"].cancelled_windows) = {}

----------------------------------------------------------------------------
(* A failed send, checked under Spec *)

\* C27: when the send of the windows update fails with a Telegram error, the
\* cycle completes all the same: every new window has a notified,
\* non-cancelled row and every cancelled record's row is cancelled; and a next
\* cycle with the same current windows reports nothing and sends nothing.
C27_SendFailureRecorded ==
    [][ CheckStep =>
          /\ last_send' = "telegram_error" =>
                /\ \A i \in 1..Len(new_windows') :
                      \E r \in NotifiedRows(flyable_windows') : Key(r) = Key(new_windows'[i])
                /\ \A j \in 1..Len(cancelled_windows') :
                      RowOf(flyable_windows', cancelled_windows'[j].id).cancelled
          /\ ( /\ last_op = "check"
               /\ last_send = "telegram_error"
               /\ Keys(result'.flyable_windows) = Keys(result.flyable_windows) )
                => ( /\ new_windows' = <<>>
                     /\ cancelled_windows' = <<>>
                     /\ last_send' = "none" ) ]_vars

\* The send of an update with a new and a cancelled window failed; the new
\* window's row is notified, the cancelled window's row is cancelled.
C27_Witness ==
    /\ last_op = "check"
    /\ last_send = "telegram_error"
    /\ new_windows # <<>>
    /\ cancelled_windows # <<>>
    /\ \E r \in NotifiedRows(flyable_windows) : Key(r) = Key(new_windows[1])
    /\ RowOf(flyable_windows, cancelled_windows[1].id).cancelled

----------------------------------------------------------------------------
(* The flags of the stored rows, checked under Spec *)

----------------------------------------------------------------------------
(* The status request, checked under SpecStatus *)

StatusStep == last_op' = "status"

\* What a check cycle run on the table reports for a fetch
CycleReport(table, kind, date_now) ==
    LET res == Analyses[date_now, kind].analysis
        h == handle_forecast_changes(store_forecast(table, res), res, date_now, "ok")
    IN  <<h.new_windows, h.cancelled_windows>>

\* C29: a status request stores no forecast row and no window row, changes no
\* flag, sends nothing and leaves the weather status alone, so that a check
\* cycle run after it reports the new and cancelled windows it would have
\* reported before it.
C29_StatusLeavesNoTrace ==
    [][ StatusStep =>
          /\ weather_forecasts' = weather_forecasts
          /\ flyable_windows' = flyable_windows
          /\ weather_status' = weather_status
          /\ last_send' = last_send
          /\ \A kind \in StatusFetchKinds :
                CycleReport(flyable_windows', kind, today') =
                    CycleReport(flyable_windows, kind, today) ]_vars

\* A status request has analyzed a forecast with a window that was not
\* announced and without a window that was.
C29_Witness ==
    /\ last_op = "status"
    /\ \E i \in 1..Len(result.flyable_windows) :
          Key(result.flyable_windows[i]) \notin {Key(r) : r \in NotifiedRows(flyable_windows)}
    /\ \E r \in NotifiedRows(flyable_windows) : Key(r) \notin Keys(result.flyable_windows)
    /\ weather_status[today].exists

----------------------------------------------------------------------------
(* The /set_config conversation, checked under SpecConfig *)

\* The rows of the table that a step removes
Deleted == {r \in locations : r.id \notin {q.id : q \in locations'}}

\* A step leaves the table locations as it is: nothing deleted, created or updated
LocationsUnchanged == locations' = locations /\ location_seq' = location_seq

====
